---- MODULE Spec2Model ----
(***************************************************************************)
(* Model of the CAN bus transport of src/src/protocols/isobus_simulator.py *)
(* (classes CANMessage and CANProtocol) and of the irrigation controller   *)
(* of src/src/actuators/irrigation.py (class IrrigationSystem) and of the  *)
(* fertilizer controller of src/src/actuators/fertilizer.py (class         *)
(* FertilizerSystem).                                                      *)
(*                                                                         *)
(* Python floats are modelled exactly as rationals: bus_load is kept in    *)
(* units of 1/LoadScale percent, which is an integer for every baud rate   *)
(* of CANBaudRate.  Message timestamps (time.time(), datetime.now()) are   *)
(* read by no operation and are left out of the frame and error records.   *)
(***************************************************************************)
EXTENDS Integers, Sequences, FiniteSets, TLC

VARIABLES
    baudrate,           \* CANProtocol.baudrate.value
    is_active,          \* CANProtocol.is_active
    bus_load,           \* CANProtocol.bus_load, in 1/LoadScale percent
    error_count,        \* CANProtocol.error_count
    tx_buffer,          \* CANProtocol.tx_buffer
    rx_buffer,          \* CANProtocol.rx_buffer
    messages_sent,      \* CANProtocol.messages_sent
    messages_received,  \* CANProtocol.messages_received
    errors,             \* CANProtocol.errors (the 'error' strings)
    rx_filters,         \* CANProtocol.rx_filters
    call,               \* the last call made on the bus, with its arguments
    ret,                \* what that call returned or raised
    injected,           \* history: the frames simulate_incoming_message appended
    held,               \* history: Len(injected) when stop() was last called
    irr,                \* the IrrigationSystem object: a record of its attributes
    irrigations,        \* history: irrigate_zone calls made on an active system
    fert                \* the FertilizerSystem object: a record of its attributes

busVars == <<baudrate, is_active, bus_load, error_count, tx_buffer, rx_buffer,
             messages_sent, messages_received, errors, rx_filters>>
vars == <<baudrate, is_active, bus_load, error_count, tx_buffer, rx_buffer,
          messages_sent, messages_received, errors, rx_filters,
          call, ret, injected, held, irr, irrigations, fert>>
busAll == <<busVars, injected, held>>
irrVars == <<irr, irrigations>>
fertVars == <<fert>>

----------------------------------------------------------------------------
(* Bounds of the model *)

MaxEvents == 4        \* messages sent, messages injected and errors logged, together
MaxBurst == 2         \* messages sent on top of a preloaded tx_buffer
MaxPayloadLen == 9    \* payload lengths tried on the CANMessage constructor
MaxPublished == 2     \* messages sent through send_sensor_data / send_actuator_command
MaxIrrigations == 1   \* irrigate_zone calls made on an active system
MaxApplications == 1  \* applications_count that apply may reach
MaxZoneList == 2      \* zones handed to one variable_rate_apply call

----------------------------------------------------------------------------
(* Program constants *)

MaxDataLen == 8               \* len(data) > 8
MaxStandardId == 2047         \* 0x7FF
MaxExtendedId == 536870911    \* 0x1FFFFFFF
BitsPerFrame == 130           \* messages_per_sec * 130
RATE_125K == 125000
RATE_250K == 250000
RATE_500K == 500000
RATE_1M == 1000000
LoadScale == 1000             \* bus_load unit: 1/1000 percent

CANBaudRate == {RATE_125K, RATE_250K, RATE_500K, RATE_1M}

Min(a, b) == IF a <= b THEN a ELSE b

----------------------------------------------------------------------------
(* class CANMessage *)

\* bytes of length n (all zero)
Zeros(n) == [i \in 1..n |-> 0]

\* CANMessage.__init__ with the standard identifier test off by one (>= 0x7FF)
CANMessage_idOffByOne(can_id, data, is_extended) ==
    IF Len(data) > MaxDataLen
    THEN [ok |-> FALSE, error |-> "max 8 bytes"]
    ELSE IF is_extended /\ can_id > MaxExtendedId
    THEN [ok |-> FALSE, error |-> "extended id <= 0x1FFFFFFF"]
    ELSE IF ~is_extended /\ can_id >= MaxStandardId
    THEN [ok |-> FALSE, error |-> "standard id <= 0x7FF"]
    ELSE [ok |-> TRUE,
          msg |-> [can_id |-> can_id, data |-> data,
                   is_extended |-> is_extended, dlc |-> Len(data)]]

\* CANMessage.__init__: the constructed message, or the ValueError it raises
CANMessage(can_id, data, is_extended) ==
    IF Len(data) > MaxDataLen
    THEN [ok |-> FALSE, error |-> "max 8 bytes"]
    ELSE IF is_extended /\ can_id > MaxExtendedId
    THEN [ok |-> FALSE, error |-> "extended id <= 0x1FFFFFFF"]
    ELSE IF ~is_extended /\ can_id > MaxStandardId
    THEN [ok |-> FALSE, error |-> "standard id <= 0x7FF"]
    ELSE [ok |-> TRUE,
          msg |-> [can_id |-> can_id, data |-> data,
                   is_extended |-> is_extended, dlc |-> Len(data)]]

----------------------------------------------------------------------------
(* Return values *)

RetNone == [kind |-> "none"]
RetBool(b) == [kind |-> "bool", val |-> b]
RetMsg(m) == [kind |-> "msg", msg |-> m]
RetRaise(e) == [kind |-> "raise", error |-> e]

----------------------------------------------------------------------------
(* class CANProtocol *)

\* CANProtocol.__init__ with the given baud rate
BusInit(rate) ==
    /\ baudrate = rate
    /\ is_active = FALSE
    /\ bus_load = 0
    /\ error_count = 0
    /\ tx_buffer = << >>
    /\ rx_buffer = << >>
    /\ messages_sent = 0
    /\ messages_received = 0
    /\ errors = << >>
    /\ rx_filters = << >>

\* _update_bus_load without the min(100, ...)
BusLoad_uncapped(tx, rx, rate) ==
    LET messages_per_sec == Len(tx) + Len(rx)
        bits_per_sec == messages_per_sec * BitsPerFrame
    IN  (bits_per_sec * ((100 * LoadScale * LoadScale) \div rate)) \div LoadScale

\* the value _update_bus_load assigns to bus_load, for buffers tx and rx
BusLoad(tx, rx, rate) ==
    LET messages_per_sec == Len(tx) + Len(rx)
        bits_per_sec == messages_per_sec * BitsPerFrame
    IN  Min(100 * LoadScale,
            (bits_per_sec * ((100 * LoadScale * LoadScale) \div rate)) \div LoadScale)

\* start() that also resets the traffic statistics
start_resetStats ==
    /\ is_active' = TRUE
    /\ error_count' = 0
    /\ messages_sent' = 0
    /\ messages_received' = messages_received
    /\ call' = [op |-> "start"]
    /\ ret' = RetNone
    /\ UNCHANGED <<baudrate, bus_load, tx_buffer, rx_buffer,
                   errors, rx_filters, injected, held>>

\* start()
start ==
    /\ is_active' = TRUE
    /\ error_count' = 0
    /\ call' = [op |-> "start"]
    /\ ret' = RetNone
    /\ UNCHANGED <<baudrate, bus_load, tx_buffer, rx_buffer, messages_sent,
                   messages_received, errors, rx_filters, injected, held>>

\* stop() that also empties the receive buffer
stop_flush ==
    /\ is_active' = FALSE
    /\ rx_buffer' = << >>
    /\ call' = [op |-> "stop"]
    /\ ret' = RetNone
    /\ held' = Len(injected)
    /\ UNCHANGED <<baudrate, bus_load, error_count, tx_buffer,
                   messages_sent, messages_received, errors, rx_filters, injected>>

\* stop()
stop ==
    /\ is_active' = FALSE
    /\ call' = [op |-> "stop"]
    /\ ret' = RetNone
    /\ held' = Len(injected)
    /\ UNCHANGED <<baudrate, bus_load, error_count, tx_buffer, rx_buffer,
                   messages_sent, messages_received, errors, rx_filters, injected>>

\* send_message without the is_active test
send_message_unguarded(can_id, data, is_extended) ==
    LET made == CANMessage(can_id, data, is_extended) IN
    /\ call' = [op |-> "send_message", can_id |-> can_id, data |-> data,
                is_extended |-> is_extended]
    /\ IF made.ok
       THEN /\ tx_buffer' = Append(tx_buffer, made.msg)
            /\ messages_sent' = messages_sent + 1
            /\ bus_load' = BusLoad(tx_buffer', rx_buffer, baudrate)
            /\ ret' = RetBool(TRUE)
            /\ UNCHANGED <<error_count, errors>>
       ELSE /\ error_count' = error_count + 1
            /\ errors' = Append(errors, made.error)
            /\ ret' = RetBool(FALSE)
            /\ UNCHANGED <<tx_buffer, messages_sent, bus_load>>
    /\ UNCHANGED <<baudrate, is_active, rx_buffer, messages_received, rx_filters,
                   injected, held>>

\* send_message whose except branch logs the error without counting it
send_message_uncounted(can_id, data, is_extended) ==
    LET made == CANMessage(can_id, data, is_extended) IN
    /\ call' = [op |-> "send_message", can_id |-> can_id, data |-> data,
                is_extended |-> is_extended]
    /\ IF ~is_active
       THEN /\ ret' = RetBool(FALSE)
            /\ UNCHANGED <<tx_buffer, messages_sent, bus_load, error_count, errors>>
       ELSE IF made.ok
       THEN /\ tx_buffer' = Append(tx_buffer, made.msg)
            /\ messages_sent' = messages_sent + 1
            /\ bus_load' = BusLoad(tx_buffer', rx_buffer, baudrate)
            /\ ret' = RetBool(TRUE)
            /\ UNCHANGED <<error_count, errors>>
       ELSE /\ errors' = Append(errors, made.error)
            /\ ret' = RetBool(FALSE)
            /\ UNCHANGED <<tx_buffer, messages_sent, bus_load, error_count>>
    /\ UNCHANGED <<baudrate, is_active, rx_buffer, messages_received, rx_filters,
                   injected, held>>

\* send_message(can_id, data, is_extended)
send_message(can_id, data, is_extended) ==
    LET made == CANMessage(can_id, data, is_extended) IN
    /\ call' = [op |-> "send_message", can_id |-> can_id, data |-> data,
                is_extended |-> is_extended]
    /\ IF ~is_active
       THEN /\ ret' = RetBool(FALSE)
            /\ UNCHANGED <<tx_buffer, messages_sent, bus_load, error_count, errors>>
       ELSE IF made.ok
       THEN /\ tx_buffer' = Append(tx_buffer, made.msg)
            /\ messages_sent' = messages_sent + 1
            /\ bus_load' = BusLoad(tx_buffer', rx_buffer, baudrate)
            /\ ret' = RetBool(TRUE)
            /\ UNCHANGED <<error_count, errors>>
       ELSE /\ error_count' = error_count + 1
            /\ errors' = Append(errors, made.error)
            /\ ret' = RetBool(FALSE)
            /\ UNCHANGED <<tx_buffer, messages_sent, bus_load>>
    /\ UNCHANGED <<baudrate, is_active, rx_buffer, messages_received, rx_filters,
                   injected, held>>

\* receive_message with pop() in place of pop(0)
receive_message_lifo ==
    /\ call' = [op |-> "receive_message"]
    /\ IF is_active /\ rx_buffer # << >>
       THEN /\ rx_buffer' = SubSeq(rx_buffer, 1, Len(rx_buffer) - 1)
            /\ messages_received' = messages_received + 1
            /\ ret' = RetMsg(rx_buffer[Len(rx_buffer)])
       ELSE /\ ret' = RetNone
            /\ UNCHANGED <<rx_buffer, messages_received>>
    /\ UNCHANGED <<baudrate, is_active, bus_load, error_count, tx_buffer,
                   messages_sent, errors, rx_filters, injected, held>>

\* receive_message()
receive_message ==
    /\ call' = [op |-> "receive_message"]
    /\ IF is_active /\ rx_buffer # << >>
       THEN /\ rx_buffer' = Tail(rx_buffer)
            /\ messages_received' = messages_received + 1
            /\ ret' = RetMsg(Head(rx_buffer))
       ELSE /\ ret' = RetNone
            /\ UNCHANGED <<rx_buffer, messages_received>>
    /\ UNCHANGED <<baudrate, is_active, bus_load, error_count, tx_buffer,
                   messages_sent, errors, rx_filters, injected, held>>

\* can_id in self.rx_filters
InFilters(can_id, filters) == \E i \in 1..Len(filters) : filters[i] = can_id

\* simulate_incoming_message without the filter test
simulate_incoming_message_nofilter(can_id, data, is_extended) ==
    LET made == CANMessage(can_id, data, is_extended) IN
    /\ call' = [op |-> "simulate_incoming_message", can_id |-> can_id,
                data |-> data, is_extended |-> is_extended]
    /\ IF ~is_active
       THEN /\ ret' = RetNone
            /\ UNCHANGED <<rx_buffer, injected>>
       ELSE IF made.ok
       THEN /\ rx_buffer' = Append(rx_buffer, made.msg)
            /\ injected' = Append(injected, made.msg)
            /\ ret' = RetNone
       ELSE /\ ret' = RetRaise(made.error)
            /\ UNCHANGED <<rx_buffer, injected>>
    /\ UNCHANGED <<baudrate, is_active, bus_load, error_count, tx_buffer,
                   messages_sent, messages_received, errors, rx_filters, held>>

\* simulate_incoming_message(can_id, data, is_extended)
simulate_incoming_message(can_id, data, is_extended) ==
    LET made == CANMessage(can_id, data, is_extended) IN
    /\ call' = [op |-> "simulate_incoming_message", can_id |-> can_id,
                data |-> data, is_extended |-> is_extended]
    /\ IF ~is_active
       THEN /\ ret' = RetNone
            /\ UNCHANGED <<rx_buffer, injected>>
       ELSE IF rx_filters # << >> /\ ~InFilters(can_id, rx_filters)
       THEN /\ ret' = RetNone
            /\ UNCHANGED <<rx_buffer, injected>>
       ELSE IF made.ok
       THEN /\ rx_buffer' = Append(rx_buffer, made.msg)
            /\ injected' = Append(injected, made.msg)
            /\ ret' = RetNone
       ELSE /\ ret' = RetRaise(made.error)
            /\ UNCHANGED <<rx_buffer, injected>>
    /\ UNCHANGED <<baudrate, is_active, bus_load, error_count, tx_buffer,
                   messages_sent, messages_received, errors, rx_filters, held>>

\* add_rx_filter without the "not in" test
add_rx_filter_dup(can_id) ==
    /\ call' = [op |-> "add_rx_filter", can_id |-> can_id]
    /\ ret' = RetNone
    /\ rx_filters' = Append(rx_filters, can_id)
    /\ UNCHANGED <<baudrate, is_active, bus_load, error_count, tx_buffer, rx_buffer,
                   messages_sent, messages_received, errors, injected, held>>

\* add_rx_filter(can_id)
add_rx_filter(can_id) ==
    /\ call' = [op |-> "add_rx_filter", can_id |-> can_id]
    /\ ret' = RetNone
    /\ rx_filters' = IF InFilters(can_id, rx_filters)
                     THEN rx_filters
                     ELSE Append(rx_filters, can_id)
    /\ UNCHANGED <<baudrate, is_active, bus_load, error_count, tx_buffer, rx_buffer,
                   messages_sent, messages_received, errors, injected, held>>

\* clear_rx_filters that also drops the messages waiting in rx_buffer
clear_rx_filters_flush ==
    /\ call' = [op |-> "clear_rx_filters"]
    /\ ret' = RetNone
    /\ rx_filters' = << >>
    /\ rx_buffer' = << >>
    /\ UNCHANGED <<baudrate, is_active, bus_load, error_count, tx_buffer,
                   messages_sent, messages_received, errors, injected, held>>

\* clear_rx_filters()
clear_rx_filters ==
    /\ call' = [op |-> "clear_rx_filters"]
    /\ ret' = RetNone
    /\ rx_filters' = << >>
    /\ UNCHANGED <<baudrate, is_active, bus_load, error_count, tx_buffer, rx_buffer,
                   messages_sent, messages_received, errors, injected, held>>

\* sensor_ids.get(sensor_type, 0x1FF)
SensorId(sensor_type) ==
    CASE sensor_type = "temperature" -> 256       \* 0x100
      [] sensor_type = "humidity" -> 257          \* 0x101
      [] sensor_type = "pressure" -> 258          \* 0x102
      [] sensor_type = "soil_moisture" -> 259     \* 0x103
      [] sensor_type = "npk" -> 260               \* 0x104
      [] OTHER -> 511                             \* 0x1FF

\* actuator_ids.get(actuator_type, 0x2FF)
ActuatorId(actuator_type) ==
    CASE actuator_type = "irrigation" -> 512      \* 0x200
      [] actuator_type = "fertilizer" -> 513      \* 0x201
      [] actuator_type = "valve" -> 514           \* 0x202
      [] OTHER -> 767                             \* 0x2FF

\* commands.get(command, 0x00)
CommandByte(command) ==
    CASE command = "start" -> 1
      [] command = "stop" -> 2
      [] command = "set_rate" -> 3
      [] command = "status" -> 4
      [] OTHER -> 0

\* int(x): a / b rounded towards zero
TruncDiv(a, b) == IF a >= 0 THEN a \div b ELSE -((-a) \div b)

\* x.to_bytes(4, byteorder='little', signed=True), for x of 32 bits
ToBytesLE4(x) ==
    <<x % 256, (x \div 256) % 256, (x \div 65536) % 256, (x \div 16777216) % 256>>

\* send_sensor_data(sensor_type, value); value is given in thousandths, so
\* that int(value * 100) is value1000 / 10 rounded towards zero
send_sensor_data(sensor_type, value1000) ==
    LET can_id == SensorId(sensor_type)
        data == ToBytesLE4(TruncDiv(value1000, 10)) \o <<0, 0, 0, 0>>
    IN  send_message(can_id, data, FALSE)

\* send_actuator_command with the value bytes in the order low, high
send_actuator_command_lowHigh(actuator_type, command, value) ==
    LET can_id == ActuatorId(actuator_type)
        cmd_byte == CommandByte(command)
        data == <<cmd_byte, value % 256, (value \div 256) % 256, 0, 0, 0, 0, 0>>
    IN  send_message(can_id, data, FALSE)

\* send_actuator_command(actuator_type, command, value)
send_actuator_command(actuator_type, command, value) ==
    LET can_id == ActuatorId(actuator_type)
        cmd_byte == CommandByte(command)
        data == <<cmd_byte, (value \div 256) % 256, value % 256, 0, 0, 0, 0, 0>>
    IN  send_message(can_id, data, FALSE)

----------------------------------------------------------------------------
(* class IrrigationSystem.  Volumes, flows, minutes and moistures are the   *)
(* Python floats taken as exact numbers; pressures are in tenths of a bar.  *)

IrrigationMode == {"manual", "automatic", "scheduled", "off"}

DefaultZones == 4             \* zones: int = 4
DefaultMaxFlowRate == 100     \* max_flow_rate: float = 100.0
DefaultTargetMoisture == 50   \* self.target_soil_moisture = 50.0
BasePressure == 25            \* base_pressure = 2.5 bar
\* random.uniform(-0.2, 0.2): both ends of the range
PressureJitter == {-2, 2}

\* IrrigationSystem.__init__(system_id, zones, max_flow_rate)
IrrigationSystem(zones, max_flow_rate) ==
    [num_zones |-> zones,
     max_flow_rate |-> max_flow_rate,
     is_active |-> FALSE,
     mode |-> "off",
     current_flow_rate |-> 0,
     current_pressure |-> 0,
     total_volume |-> 0,
     zones_status |-> [i \in 1..zones |-> FALSE],
     operation_time |-> 0,
     last_irrigation |-> "None",
     next_scheduled |-> << >>,
     target_soil_moisture |-> DefaultTargetMoisture,
     schedule_times |-> << >>]

\* start(mode)
IrrigationSystem_start(s, mode) ==
    [s EXCEPT !.is_active = TRUE, !.mode = mode]

\* stop() that keeps the flow it finds
IrrigationSystem_stop_keepFlow(s) ==
    [s EXCEPT !.is_active = FALSE,
              !.mode = "off",
              !.current_pressure = 0,
              !.zones_status = [zone \in DOMAIN s.zones_status |-> FALSE]]

\* stop() that also drops the schedule
IrrigationSystem_stop_clearSchedule(s) ==
    [s EXCEPT !.is_active = FALSE,
              !.mode = "off",
              !.current_flow_rate = 0,
              !.current_pressure = 0,
              !.zones_status = [zone \in DOMAIN s.zones_status |-> FALSE],
              !.schedule_times = << >>,
              !.next_scheduled = << >>]

\* stop()
IrrigationSystem_stop(s) ==
    [s EXCEPT !.is_active = FALSE,
              !.mode = "off",
              !.current_flow_rate = 0,
              !.current_pressure = 0,
              !.zones_status = [zone \in DOMAIN s.zones_status |-> FALSE]]

\* _update_flow_and_pressure(); jitter is the value random.uniform returns.
\* max_flow_rate / num_zones is exact for the systems of this model.
update_flow_and_pressure(s, jitter) ==
    LET active_zones ==
            Cardinality({zone \in DOMAIN s.zones_status : s.zones_status[zone]})
    IN  IF active_zones = 0
        THEN [s EXCEPT !.current_flow_rate = 0, !.current_pressure = 0]
        ELSE [s EXCEPT !.current_flow_rate =
                           Min(s.max_flow_rate,
                               active_zones * (s.max_flow_rate \div s.num_zones)),
                       !.current_pressure = BasePressure + jitter]

\* open_zone that does not look at is_active
open_zone_unguarded(s, zone_number, jitter) ==
    IF zone_number \notin DOMAIN s.zones_status
    THEN [s |-> s, ret |-> FALSE]
    ELSE [s |-> update_flow_and_pressure(
                    [s EXCEPT !.zones_status[zone_number] = TRUE], jitter),
          ret |-> TRUE]

\* open_zone(zone_number): the system afterwards and the value returned
open_zone(s, zone_number, jitter) ==
    IF ~s.is_active
    THEN [s |-> s, ret |-> FALSE]
    ELSE IF zone_number \notin DOMAIN s.zones_status
    THEN [s |-> s, ret |-> FALSE]
    ELSE [s |-> update_flow_and_pressure(
                    [s EXCEPT !.zones_status[zone_number] = TRUE], jitter),
          ret |-> TRUE]

\* close_zone that flips the zone and skips the recomputation
close_zone_noUpdate(s, zone_number, jitter) ==
    IF zone_number \notin DOMAIN s.zones_status
    THEN [s |-> s, ret |-> FALSE]
    ELSE [s |-> [s EXCEPT !.zones_status[zone_number] = FALSE], ret |-> TRUE]

\* close_zone(zone_number): the system afterwards and the value returned
close_zone(s, zone_number, jitter) ==
    IF zone_number \notin DOMAIN s.zones_status
    THEN [s |-> s, ret |-> FALSE]
    ELSE [s |-> update_flow_and_pressure(
                    [s EXCEPT !.zones_status[zone_number] = FALSE], jitter),
          ret |-> TRUE]

\* set_flow_rate without the range test
set_flow_rate_unchecked(s, flow_rate) ==
    IF ~s.is_active
    THEN [s |-> s, ret |-> FALSE]
    ELSE [s |-> [s EXCEPT !.current_flow_rate = flow_rate], ret |-> TRUE]

\* set_flow_rate(flow_rate): the system afterwards and the value returned
set_flow_rate(s, flow_rate) ==
    IF ~s.is_active
    THEN [s |-> s, ret |-> FALSE]
    ELSE IF flow_rate < 0 \/ flow_rate > s.max_flow_rate
    THEN [s |-> s, ret |-> FALSE]
    ELSE [s |-> [s EXCEPT !.current_flow_rate = flow_rate], ret |-> TRUE]

\* irrigate_zone that takes the volume from the flow before the zone opens
irrigate_zone_flowBefore(s, zone_number, duration_minutes, jitter1, jitter2) ==
    IF ~s.is_active
    THEN s
    ELSE LET opened == open_zone(s, zone_number, jitter1).s
             timed == [opened EXCEPT !.operation_time = @ + duration_minutes]
             volume == s.current_flow_rate * duration_minutes
             watered == [timed EXCEPT !.total_volume = @ + volume]
             closed == close_zone(watered, zone_number, jitter2).s
         IN  [closed EXCEPT !.last_irrigation = "stamped"]

\* irrigate_zone(zone_number, duration_minutes): the system afterwards;
\* jitter1 and jitter2 are the draws of the open_zone and the close_zone call
irrigate_zone(s, zone_number, duration_minutes, jitter1, jitter2) ==
    IF ~s.is_active
    THEN s
    ELSE LET opened == open_zone(s, zone_number, jitter1).s
             timed == [opened EXCEPT !.operation_time = @ + duration_minutes]
             volume == timed.current_flow_rate * duration_minutes
             watered == [timed EXCEPT !.total_volume = @ + volume]
             closed == close_zone(watered, zone_number, jitter2).s
         IN  [closed EXCEPT !.last_irrigation = "stamped"]

\* for zone in range(first, num_zones + 1): open_zone(zone).  Every call
\* draws its own pressure, which the next call overwrites: jitter is the
\* draw of the last call.
RECURSIVE open_zones_from(_, _, _)
open_zones_from(s, first, jitter) ==
    IF first > s.num_zones
    THEN s
    ELSE open_zones_from(open_zone(s, first, jitter).s, first + 1, jitter)

\* auto_irrigate that also triggers at the target moisture
auto_irrigate_atTarget(s, current_soil_moisture, jitter) ==
    IF ~s.is_active \/ s.mode # "automatic"
    THEN [s |-> s, ret |-> FALSE]
    ELSE IF current_soil_moisture <= s.target_soil_moisture
    THEN [s |-> open_zones_from(s, 1, jitter), ret |-> TRUE]
    ELSE [s |-> s, ret |-> FALSE]

\* auto_irrigate(current_soil_moisture): the system afterwards and the value
\* returned
auto_irrigate(s, current_soil_moisture, jitter) ==
    IF ~s.is_active \/ s.mode # "automatic"
    THEN [s |-> s, ret |-> FALSE]
    ELSE IF current_soil_moisture < s.target_soil_moisture
    THEN [s |-> open_zones_from(s, 1, jitter), ret |-> TRUE]
    ELSE [s |-> s, ret |-> FALSE]

\* A time string "HH:MM" is the sequence of its characters: a digit is its
\* value and ':' is Colon, which Python orders after every digit.
Colon == 10
TimeStr(hour, minute) ==
    <<hour \div 10, hour % 10, Colon, minute \div 10, minute % 10>>

\* a < b for two strings, as Python compares them
StrLess(a, b) ==
    \E i \in 1..(Len(a) + 1) :
        /\ \A j \in 1..(i - 1) : j <= Len(b) /\ a[j] = b[j]
        /\ i <= Len(b)
        /\ (i <= Len(a) => a[i] < b[i])

\* sorted(times) that leaves the list in the order given
sorted_asGiven(times) == times

\* sorted(times)
RECURSIVE sorted(_)
sorted(times) ==
    IF times = << >>
    THEN << >>
    ELSE LET least == CHOOSE i \in 1..Len(times) :
                          \A j \in 1..Len(times) : ~StrLess(times[j], times[i])
             others == [k \in 1..(Len(times) - 1) |->
                           IF k < least THEN times[k] ELSE times[k + 1]]
         IN  <<times[least]>> \o sorted(others)

\* int(digits)
RECURSIVE int(_)
int(digits) ==
    IF digits = << >>
    THEN 0
    ELSE 10 * int(SubSeq(digits, 1, Len(digits) - 1)) + digits[Len(digits)]

\* hour, minute = map(int, time_str.split(':'))
ParseTime(time_str) ==
    LET colon == CHOOSE i \in 1..Len(time_str) : time_str[i] = Colon
    IN  [hour |-> int(SubSeq(time_str, 1, colon - 1)),
         minute |-> int(SubSeq(time_str, colon + 1, Len(time_str)))]

\* scheduled_time > now, scheduled_time being today at hour:minute:00 and
\* now the clock reading cut to the minute
LaterToday(at, now) ==
    at.hour > now.hour \/ (at.hour = now.hour /\ at.minute > now.minute)

\* the first time of the sorted list from index i on that is later today
RECURSIVE first_later(_, _, _)
first_later(ordered, i, now) ==
    IF i > Len(ordered)
    THEN << >>
    ELSE LET at == ParseTime(ordered[i]) IN
         IF LaterToday(at, now)
         THEN <<[day |-> "today", hour |-> at.hour, minute |-> at.minute]>>
         ELSE first_later(ordered, i + 1, now)

\* _update_next_scheduled(); now is what datetime.now() returns
update_next_scheduled(s, now) ==
    IF s.schedule_times = << >>
    THEN [s EXCEPT !.next_scheduled = << >>]
    ELSE LET ordered == sorted(s.schedule_times)
             today == first_later(ordered, 1, now)
             first == ParseTime(ordered[1])
         IN  IF today # << >>
             THEN [s EXCEPT !.next_scheduled = today]
             ELSE [s EXCEPT !.next_scheduled =
                       <<[day |-> "tomorrow", hour |-> first.hour,
                          minute |-> first.minute]>>]

\* schedule_irrigation(times)
schedule_irrigation(s, times, now) ==
    update_next_scheduled([s EXCEPT !.schedule_times = times], now)

----------------------------------------------------------------------------
(* class FertilizerSystem.  The Python floats are fixed-point numbers:      *)
(* areas in hundredths of a hectare, rates in tenths of a kg/ha, masses in  *)
(* thousandths of a kg (a rate times an area), soil levels in hundredths of *)
(* a mg/kg.  The numbers the code rounds before it returns them are in the  *)
(* unit of the rounding: hundredths of a kg, tenths of a kg/ha.             *)

AreaScale == 100
RateScale == 10
MassScale == RateScale * AreaScale
SoilScale == 100

\* round(x, ndigits) for x = n / d in the unit of the last digit kept: the
\* nearest whole number, a half going to the even one
round(n, d) ==
    LET q == n \div d
        r == n % d
    IN  IF 2 * r < d THEN q
        ELSE IF 2 * r > d THEN q + 1
        ELSE IF q % 2 = 0 THEN q ELSE q + 1

\* the members of the enumeration, by name
FertilizerType == {"NPK_20_10_10", "NPK_10_20_20", "NPK_15_15_15",
                   "NPK_04_14_08", "UREA"}
ApplicationMode == {"manual", "automatic", "variable_rate", "off"}

DefaultTankCapacity == 500    \* tank_capacity: float = 500.0
DefaultMaxRate == 200         \* max_rate: float = 200.0
TargetN == 30                 \* self.target_npk['N']
TargetP == 15                 \* self.target_npk['P']
TargetK == 40                 \* self.target_npk['K']

\* FertilizerSystem.__init__(system_id, tank_capacity, max_rate)
FertilizerSystem(tank_capacity, max_rate) ==
    [tank_capacity |-> tank_capacity,
     max_rate |-> max_rate,
     is_active |-> FALSE,
     mode |-> "off",
     current_fertilizer |-> "None",
     tank_level |-> tank_capacity,
     application_rate |-> 0,
     total_applied |-> 0,
     area_covered |-> 0,
     last_application |-> "None",
     applications_count |-> 0,
     target_npk |-> [N |-> TargetN * SoilScale,
                     P |-> TargetP * SoilScale,
                     K |-> TargetK * SoilScale]]

\* start(mode)
FertilizerSystem_start(s, mode) ==
    [s EXCEPT !.is_active = TRUE, !.mode = mode]

\* stop() that leaves the rate as it finds it
FertilizerSystem_stop_keepRate(s) ==
    [s EXCEPT !.is_active = FALSE, !.mode = "off"]

\* stop() that leaves the mode as it finds it
FertilizerSystem_stop_keepMode(s) ==
    [s EXCEPT !.is_active = FALSE, !.application_rate = 0]

\* stop()
FertilizerSystem_stop(s) ==
    [s EXCEPT !.is_active = FALSE, !.mode = "off", !.application_rate = 0]

\* load_fertilizer that adds the amount to the level it finds
load_fertilizer_adds(s, fertilizer_type, amount) ==
    IF s.is_active
    THEN [s |-> s, ret |-> RetBool(FALSE)]
    ELSE IF amount > s.tank_capacity
    THEN [s |-> s, ret |-> RetBool(FALSE)]
    ELSE [s |-> [s EXCEPT !.current_fertilizer = fertilizer_type,
                          !.tank_level = @ + amount],
          ret |-> RetBool(TRUE)]

\* load_fertilizer(fertilizer_type, amount): the system afterwards and the
\* value returned
load_fertilizer(s, fertilizer_type, amount) ==
    IF s.is_active
    THEN [s |-> s, ret |-> RetBool(FALSE)]
    ELSE IF amount > s.tank_capacity
    THEN [s |-> s, ret |-> RetBool(FALSE)]
    ELSE [s |-> [s EXCEPT !.current_fertilizer = fertilizer_type,
                          !.tank_level = amount],
          ret |-> RetBool(TRUE)]

\* set_application_rate without the range test
set_application_rate_noRange(s, rate) ==
    IF ~s.is_active
    THEN [s |-> s, ret |-> RetBool(FALSE)]
    ELSE IF s.current_fertilizer = "None"
    THEN [s |-> s, ret |-> RetBool(FALSE)]
    ELSE [s |-> [s EXCEPT !.application_rate = rate], ret |-> RetBool(TRUE)]

\* set_application_rate(rate): the system afterwards and the value returned
set_application_rate(s, rate) ==
    IF ~s.is_active
    THEN [s |-> s, ret |-> RetBool(FALSE)]
    ELSE IF rate < 0 \/ rate > s.max_rate
    THEN [s |-> s, ret |-> RetBool(FALSE)]
    ELSE IF s.current_fertilizer = "None"
    THEN [s |-> s, ret |-> RetBool(FALSE)]
    ELSE [s |-> [s EXCEPT !.application_rate = rate], ret |-> RetBool(TRUE)]

\* _get_npk_composition with urea at 46 % of nitrogen
get_npk_composition_urea46(fertilizer_type) ==
    CASE fertilizer_type = "NPK_20_10_10" -> [N |-> 20, P |-> 10, K |-> 10]
      [] fertilizer_type = "NPK_10_20_20" -> [N |-> 10, P |-> 20, K |-> 20]
      [] fertilizer_type = "NPK_15_15_15" -> [N |-> 15, P |-> 15, K |-> 15]
      [] fertilizer_type = "NPK_04_14_08" -> [N |-> 4, P |-> 14, K |-> 8]
      [] fertilizer_type = "UREA" -> [N |-> 46, P |-> 0, K |-> 0]
      [] OTHER -> [N |-> 0, P |-> 0, K |-> 0]

\* _get_npk_composition(fertilizer_type): percentages of N, P and K
get_npk_composition(fertilizer_type) ==
    CASE fertilizer_type = "NPK_20_10_10" -> [N |-> 20, P |-> 10, K |-> 10]
      [] fertilizer_type = "NPK_10_20_20" -> [N |-> 10, P |-> 20, K |-> 20]
      [] fertilizer_type = "NPK_15_15_15" -> [N |-> 15, P |-> 15, K |-> 15]
      [] fertilizer_type = "NPK_04_14_08" -> [N |-> 4, P |-> 14, K |-> 8]
      [] fertilizer_type = "UREA" -> [N |-> 45, P |-> 0, K |-> 0]
      [] OTHER -> [N |-> 0, P |-> 0, K |-> 0]

\* apply that does not add the amount to total_applied
apply_untallied(s, area) ==
    IF ~s.is_active
    THEN [s |-> s, ret |-> RetRaise("not active")]
    ELSE IF s.current_fertilizer = "None"
    THEN [s |-> s, ret |-> RetRaise("no fertilizer loaded")]
    ELSE IF s.application_rate = 0
    THEN [s |-> s, ret |-> RetRaise("application rate not set")]
    ELSE LET needed == s.application_rate * area
             short == needed > s.tank_level
             required_amount == IF short THEN s.tank_level ELSE needed
             covered == IF short
                        THEN s.tank_level \div s.application_rate
                        ELSE area
             npk_composition == get_npk_composition(s.current_fertilizer)
             after == [s EXCEPT !.tank_level = @ - required_amount,
                                !.area_covered = @ + covered,
                                !.applications_count = @ + 1,
                                !.last_application = "stamped"]
         IN  [s |-> after,
              ret |-> [kind |-> "applied",
                       area_hectares |-> round(covered, 1),
                       amount_applied_kg |-> round(required_amount, 10),
                       fertilizer_type |-> s.current_fertilizer,
                       application_rate |-> s.application_rate,
                       tank_remaining_kg |-> round(after.tank_level, 10),
                       npk_applied |->
                           [N |-> round(required_amount * npk_composition.N,
                                        1000),
                            P |-> round(required_amount * npk_composition.P,
                                        1000),
                            K |-> round(required_amount * npk_composition.K,
                                        1000)]]]

\* apply that books the whole area although the tank ran short
apply_fullArea(s, area) ==
    IF ~s.is_active
    THEN [s |-> s, ret |-> RetRaise("not active")]
    ELSE IF s.current_fertilizer = "None"
    THEN [s |-> s, ret |-> RetRaise("no fertilizer loaded")]
    ELSE IF s.application_rate = 0
    THEN [s |-> s, ret |-> RetRaise("application rate not set")]
    ELSE LET needed == s.application_rate * area
             short == needed > s.tank_level
             required_amount == IF short THEN s.tank_level ELSE needed
             covered == area
             npk_composition == get_npk_composition(s.current_fertilizer)
             after == [s EXCEPT !.tank_level = @ - required_amount,
                                !.total_applied = @ + required_amount,
                                !.area_covered = @ + covered,
                                !.applications_count = @ + 1,
                                !.last_application = "stamped"]
         IN  [s |-> after,
              ret |-> [kind |-> "applied",
                       area_hectares |-> round(covered, 1),
                       amount_applied_kg |-> round(required_amount, 10),
                       fertilizer_type |-> s.current_fertilizer,
                       application_rate |-> s.application_rate,
                       tank_remaining_kg |-> round(after.tank_level, 10),
                       npk_applied |->
                           [N |-> round(required_amount * npk_composition.N,
                                        1000),
                            P |-> round(required_amount * npk_composition.P,
                                        1000),
                            K |-> round(required_amount * npk_composition.K,
                                        1000)]]]

\* apply without the test of the rate; a short tank then divides by zero
apply_noRateCheck(s, area) ==
    IF ~s.is_active
    THEN [s |-> s, ret |-> RetRaise("not active")]
    ELSE IF s.current_fertilizer = "None"
    THEN [s |-> s, ret |-> RetRaise("no fertilizer loaded")]
    ELSE IF s.application_rate = 0 /\ 0 > s.tank_level
    THEN [s |-> s, ret |-> RetRaise("ZeroDivisionError")]
    ELSE LET needed == s.application_rate * area
             short == needed > s.tank_level
             required_amount == IF short THEN s.tank_level ELSE needed
             covered == IF short
                        THEN s.tank_level \div s.application_rate
                        ELSE area
             npk_composition == get_npk_composition(s.current_fertilizer)
             after == [s EXCEPT !.tank_level = @ - required_amount,
                                !.total_applied = @ + required_amount,
                                !.area_covered = @ + covered,
                                !.applications_count = @ + 1,
                                !.last_application = "stamped"]
         IN  [s |-> after,
              ret |-> [kind |-> "applied",
                       area_hectares |-> round(covered, 1),
                       amount_applied_kg |-> round(required_amount, 10),
                       fertilizer_type |-> s.current_fertilizer,
                       application_rate |-> s.application_rate,
                       tank_remaining_kg |-> round(after.tank_level, 10),
                       npk_applied |->
                           [N |-> round(required_amount * npk_composition.N,
                                        1000),
                            P |-> round(required_amount * npk_composition.P,
                                        1000),
                            K |-> round(required_amount * npk_composition.K,
                                        1000)]]]

\* apply(area): the system afterwards and the dict returned or the error
\* raised.  The quotient tank_level / application_rate is exact for the
\* masses and rates of this model.  The dict has the area in hundredths of
\* a hectare and the masses in hundredths of a kg.
apply(s, area) ==
    IF ~s.is_active
    THEN [s |-> s, ret |-> RetRaise("not active")]
    ELSE IF s.current_fertilizer = "None"
    THEN [s |-> s, ret |-> RetRaise("no fertilizer loaded")]
    ELSE IF s.application_rate = 0
    THEN [s |-> s, ret |-> RetRaise("application rate not set")]
    ELSE LET needed == s.application_rate * area
             short == needed > s.tank_level
             required_amount == IF short THEN s.tank_level ELSE needed
             covered == IF short
                        THEN s.tank_level \div s.application_rate
                        ELSE area
             npk_composition == get_npk_composition(s.current_fertilizer)
             after == [s EXCEPT !.tank_level = @ - required_amount,
                                !.total_applied = @ + required_amount,
                                !.area_covered = @ + covered,
                                !.applications_count = @ + 1,
                                !.last_application = "stamped"]
         IN  [s |-> after,
              ret |-> [kind |-> "applied",
                       area_hectares |-> round(covered, 1),
                       amount_applied_kg |-> round(required_amount, 10),
                       fertilizer_type |-> s.current_fertilizer,
                       application_rate |-> s.application_rate,
                       tank_remaining_kg |-> round(after.tank_level, 10),
                       npk_applied |->
                           [N |-> round(required_amount * npk_composition.N,
                                        1000),
                            P |-> round(required_amount * npk_composition.P,
                                        1000),
                            K |-> round(required_amount * npk_composition.K,
                                        1000)]]]

\* current_npk.get(key, 0)
NpkGet(current_npk, key) ==
    IF key \in DOMAIN current_npk THEN current_npk[key] ELSE 0

Max(a, b) == IF a >= b THEN a ELSE b

\* recommend_fertilizer that looks at phosphorus before nitrogen
recommend_fertilizer_phosphorusFirst(s, current_npk) ==
    LET deficits == [N |-> Max(0, s.target_npk.N - NpkGet(current_npk, "N")),
                     P |-> Max(0, s.target_npk.P - NpkGet(current_npk, "P")),
                     K |-> Max(0, s.target_npk.K - NpkGet(current_npk, "K"))]
        total == deficits.N + deficits.P + deficits.K
        recommended ==
            IF deficits.P > 10 * SoilScale THEN "NPK_04_14_08"
            ELSE IF deficits.N > 10 * SoilScale THEN "NPK_20_10_10"
            ELSE IF deficits.K > 10 * SoilScale THEN "NPK_10_20_20"
            ELSE IF total > 15 * SoilScale THEN "NPK_15_15_15"
            ELSE "Nenhum"
        recommended_rate ==
            IF recommended # "Nenhum"
            THEN Min(s.max_rate * (SoilScale \div RateScale), total)
            ELSE 0
    IN  [s |-> s,
         ret |-> [kind |-> "recommendation",
                  current_npk |-> current_npk,
                  target_npk |-> s.target_npk,
                  deficits |-> deficits,
                  recommended_fertilizer |-> recommended,
                  recommended_rate_kg_ha |->
                      round(recommended_rate, SoilScale \div RateScale)]]

\* recommend_fertilizer that makes the rate it recommends the rate of the
\* system
recommend_fertilizer_setsRate(s, current_npk) ==
    LET deficits == [N |-> Max(0, s.target_npk.N - NpkGet(current_npk, "N")),
                     P |-> Max(0, s.target_npk.P - NpkGet(current_npk, "P")),
                     K |-> Max(0, s.target_npk.K - NpkGet(current_npk, "K"))]
        total == deficits.N + deficits.P + deficits.K
        recommended ==
            IF deficits.N > 10 * SoilScale THEN "NPK_20_10_10"
            ELSE IF deficits.P > 10 * SoilScale THEN "NPK_04_14_08"
            ELSE IF deficits.K > 10 * SoilScale THEN "NPK_10_20_20"
            ELSE IF total > 15 * SoilScale THEN "NPK_15_15_15"
            ELSE "Nenhum"
        recommended_rate ==
            IF recommended # "Nenhum"
            THEN Min(s.max_rate * (SoilScale \div RateScale), total)
            ELSE 0
    IN  [s |-> [s EXCEPT !.application_rate =
                   round(recommended_rate, SoilScale \div RateScale)],
         ret |-> [kind |-> "recommendation",
                  current_npk |-> current_npk,
                  target_npk |-> s.target_npk,
                  deficits |-> deficits,
                  recommended_fertilizer |-> recommended,
                  recommended_rate_kg_ha |->
                      round(recommended_rate, SoilScale \div RateScale)]]

\* recommend_fertilizer(current_npk): the system afterwards and the dict
\* returned.  avg_deficit * 3 is the sum of the deficits, a number of kg/ha
\* in hundredths; the rate returned is rounded to tenths.
recommend_fertilizer(s, current_npk) ==
    LET deficits == [N |-> Max(0, s.target_npk.N - NpkGet(current_npk, "N")),
                     P |-> Max(0, s.target_npk.P - NpkGet(current_npk, "P")),
                     K |-> Max(0, s.target_npk.K - NpkGet(current_npk, "K"))]
        total == deficits.N + deficits.P + deficits.K
        recommended ==
            IF deficits.N > 10 * SoilScale THEN "NPK_20_10_10"
            ELSE IF deficits.P > 10 * SoilScale THEN "NPK_04_14_08"
            ELSE IF deficits.K > 10 * SoilScale THEN "NPK_10_20_20"
            ELSE IF total > 15 * SoilScale THEN "NPK_15_15_15"
            ELSE "Nenhum"
        recommended_rate ==
            IF recommended # "Nenhum"
            THEN Min(s.max_rate * (SoilScale \div RateScale), total)
            ELSE 0
    IN  [s |-> s,
         ret |-> [kind |-> "recommendation",
                  current_npk |-> current_npk,
                  target_npk |-> s.target_npk,
                  deficits |-> deficits,
                  recommended_fertilizer |-> recommended,
                  recommended_rate_kg_ha |->
                      round(recommended_rate, SoilScale \div RateScale)]]

\* the body of the loop of variable_rate_apply from zone i on: the system
\* afterwards and the list returned, or the error apply raised
RECURSIVE variable_rate_zones(_, _, _, _)
variable_rate_zones(s, zones, i, results) ==
    IF i > Len(zones)
    THEN [s |-> s, ret |-> [kind |-> "results", results |-> results]]
    ELSE LET recommended == recommend_fertilizer(s, zones[i].npk)
             recommendation == recommended.ret
         IN
         IF recommendation.recommended_fertilizer = "Nenhum"
         THEN variable_rate_zones(recommended.s, zones, i + 1, results)
         ELSE LET rated == set_application_rate(
                               recommended.s,
                               recommendation.recommended_rate_kg_ha).s
                  applied == apply(rated, zones[i].area)
              IN  IF applied.ret.kind = "raise"
                  THEN [s |-> applied.s, ret |-> applied.ret]
                  ELSE variable_rate_zones(
                           applied.s, zones, i + 1,
                           Append(results,
                                  [zone |-> i,
                                   result |-> applied.ret,
                                   recommendation |-> recommendation]))

\* variable_rate_apply that does not look at the mode
variable_rate_apply_anyMode(s, zones) ==
    variable_rate_zones(s, zones, 1, << >>)

\* variable_rate_apply(zones)
variable_rate_apply(s, zones) ==
    IF s.mode # "variable_rate"
    THEN [s |-> s, ret |-> [kind |-> "results", results |-> << >>]]
    ELSE variable_rate_zones(s, zones, 1, << >>)

----------------------------------------------------------------------------
(* The bus driven by an external caller *)

Payload8 == <<1, 2, 3, 4, 5, 6, 7, 8>>
Payload9 == <<1, 2, 3, 4, 5, 6, 7, 8, 9>>

\* the (can_id, data, is_extended) arguments the caller passes: a standard and
\* an extended message, an identifier too large for standard addressing, and
\* a payload that is too long
BusInputs == { <<256, Payload8, FALSE>>,
               <<MaxStandardId + 1, Payload8, TRUE>>,
               <<MaxStandardId + 1, Payload8, FALSE>>,
               <<256, Payload9, FALSE>> }
FilterIds == {256, MaxStandardId + 1}

\* messages appended and errors logged so far
Events == Len(tx_buffer) + Len(injected) + Len(errors)

\* the irrigation system as constructed with the default arguments
IrrInit ==
    /\ irr = IrrigationSystem(DefaultZones, DefaultMaxFlowRate)
    /\ irrigations = 0

\* the fertilizer system as constructed with the default arguments
FertInit ==
    fert = FertilizerSystem(DefaultTankCapacity * MassScale,
                            DefaultMaxRate * RateScale)

Init ==
    /\ BusInit(RATE_250K)
    /\ call = [op |-> "init"]
    /\ ret = RetNone
    /\ injected = << >>
    /\ held = 0
    /\ IrrInit
    /\ FertInit

Send ==
    \E in \in BusInputs :
        /\ Events < MaxEvents
        /\ send_message(in[1], in[2], in[3])

Receive == receive_message

Inject ==
    \E in \in BusInputs :
        /\ Events < MaxEvents
        /\ simulate_incoming_message(in[1], in[2], in[3])

AddFilter == \E can_id \in FilterIds : add_rx_filter(can_id)

ClearFilters == clear_rx_filters

Next ==
    \/ start /\ UNCHANGED <<irrVars, fertVars>>
    \/ stop /\ UNCHANGED <<irrVars, fertVars>>
    \/ Send /\ UNCHANGED <<irrVars, fertVars>>
    \/ Receive /\ UNCHANGED <<irrVars, fertVars>>
    \/ Inject /\ UNCHANGED <<irrVars, fertVars>>
    \/ AddFilter /\ UNCHANGED <<irrVars, fertVars>>
    \/ ClearFilters /\ UNCHANGED <<irrVars, fertVars>>

Spec == Init /\ [][Next]_vars

----------------------------------------------------------------------------
(* The bus given identifiers of any sign *)

\* (can_id, data, is_extended): a negative identifier in either addressing
\* mode, the largest standard identifier and the one after it, and a
\* payload that is too long
IdInputs == { <<-1, <<1>>, FALSE>>,
              <<-1, <<1>>, TRUE>>,
              <<MaxStandardId, <<1>>, FALSE>>,
              <<MaxStandardId + 1, <<1>>, FALSE>>,
              <<0, Payload9, FALSE>> }

SendAnyId ==
    \E in \in IdInputs :
        /\ Events < MaxEvents
        /\ send_message(in[1], in[2], in[3])

InjectAnyId ==
    \E in \in IdInputs :
        /\ Events < MaxEvents
        /\ simulate_incoming_message(in[1], in[2], in[3])

NextIds ==
    \/ start /\ UNCHANGED <<irrVars, fertVars>>
    \/ SendAnyId /\ UNCHANGED <<irrVars, fertVars>>
    \/ InjectAnyId /\ UNCHANGED <<irrVars, fertVars>>
    \/ Receive /\ UNCHANGED <<irrVars, fertVars>>

SpecIds == Init /\ [][NextIds]_vars

----------------------------------------------------------------------------
(* The CANMessage constructor on its own *)

FrameIds == {0, 256, MaxStandardId, MaxStandardId + 1,
             MaxExtendedId, MaxExtendedId + 1}

\* CANMessage(can_id, data, is_extended) called by itself
Construct(can_id, data, is_extended) ==
    LET made == CANMessage(can_id, data, is_extended) IN
    /\ call' = [op |-> "CANMessage", can_id |-> can_id, data |-> data,
                is_extended |-> is_extended]
    /\ ret' = IF made.ok THEN RetMsg(made.msg) ELSE RetRaise(made.error)
    /\ UNCHANGED <<busVars, injected, held>>

NextFrame ==
    \E can_id \in FrameIds, n \in 0..MaxPayloadLen, is_extended \in BOOLEAN :
        Construct(can_id, Zeros(n), is_extended) /\ UNCHANGED <<irrVars, fertVars>>

SpecFrame == Init /\ [][NextFrame]_vars

----------------------------------------------------------------------------
(* A bus that has already sent many messages, at every baud rate *)

\* the largest number of queued messages whose load is below 100 % at `rate`
BelowCap(rate) == rate \div BitsPerFrame

PreloadCounts == {0} \cup {BelowCap(rate) : rate \in CANBaudRate}

\* the state after start() and n successful send_message calls
Preloaded(rate, n) ==
    LET m == CANMessage(256, Payload8, FALSE).msg
        sent == [i \in 1..n |-> m]
    IN  /\ baudrate = rate
        /\ is_active = TRUE
        /\ bus_load = BusLoad(sent, << >>, rate)
        /\ error_count = 0
        /\ tx_buffer = sent
        /\ rx_buffer = << >>
        /\ messages_sent = n
        /\ messages_received = 0
        /\ errors = << >>
        /\ rx_filters = << >>

InitLoad ==
    /\ \E rate \in CANBaudRate, n \in PreloadCounts : Preloaded(rate, n)
    /\ call = [op |-> "init"]
    /\ ret = RetNone
    /\ injected = << >>
    /\ held = 0
    /\ IrrInit
    /\ FertInit

\* the preloaded messages of tx_buffer
PreloadOf(n) == CHOOSE p \in PreloadCounts :
                    p <= n /\ \A q \in PreloadCounts : q <= n => q <= p

SendBurst ==
    \E in \in BusInputs :
        /\ Events - PreloadOf(Len(tx_buffer)) < MaxBurst
        /\ send_message(in[1], in[2], in[3])

NextLoad == SendBurst /\ UNCHANGED <<irrVars, fertVars>>

SpecLoad == InitLoad /\ [][NextLoad]_vars

----------------------------------------------------------------------------
(* The bus used through send_sensor_data and send_actuator_command *)

\* the sensor types of sensor_ids and one that is not among them
SensorTypes == {"temperature", "humidity", "pressure", "soil_moisture", "npk", "wind"}
\* sensor values in thousandths: 25.5 and -1.005
SensorValues == {25500, -1005}
\* the actuator types of actuator_ids and one that is not among them
ActuatorTypes == {"irrigation", "fertilizer", "valve", "pump"}
\* the commands of the command table and one that is not among them
Commands == {"start", "stop", "set_rate", "status", "pause"}
\* command values: 450 as in the usage example, 450 + 2^16, and a negative one
ActuatorValues == {450, 65986, -1}

\* readings published: every type with 25.5, every value for the soil moisture
SensorCalls ==
    {<<sensor_type, 25500>> : sensor_type \in SensorTypes}
    \cup {<<"soil_moisture", value1000>> : value1000 \in SensorValues}
\* commands published: every command to the valve, every actuator type and
\* every value with set_rate
ActuatorCalls ==
    {<<"valve", command, 450>> : command \in Commands}
    \cup {<<actuator_type, "set_rate", value>> :
              actuator_type \in ActuatorTypes, value \in ActuatorValues}

SendSensor ==
    \E reading \in SensorCalls :
        /\ messages_sent < MaxPublished
        /\ send_sensor_data(reading[1], reading[2])

SendActuator ==
    \E order \in ActuatorCalls :
        /\ messages_sent < MaxPublished
        /\ send_actuator_command(order[1], order[2], order[3])

NextPublish ==
    \/ start /\ UNCHANGED <<irrVars, fertVars>>
    \/ stop /\ UNCHANGED <<irrVars, fertVars>>
    \/ SendSensor /\ UNCHANGED <<irrVars, fertVars>>
    \/ SendActuator /\ UNCHANGED <<irrVars, fertVars>>

SpecPublish == Init /\ [][NextPublish]_vars

----------------------------------------------------------------------------
(* The irrigation system driven by an external caller *)

\* zone numbers: every zone, and one below and one above them
ZoneNumbers == 0..(DefaultZones + 1)
\* flow rates: below the range, inside it, its upper end, above it
FlowRates == {-1, 40, DefaultMaxFlowRate, DefaultMaxFlowRate + 1}
\* durations in minutes
Durations == {-5, 10}
\* soil moistures in percent: below, at and above the target
Moistures == {45, DefaultTargetMoisture, 65}

IrrStart ==
    \E mode \in IrrigationMode :
        /\ irr' = IrrigationSystem_start(irr, mode)
        /\ call' = [op |-> "IrrigationSystem.start", mode |-> mode]
        /\ ret' = RetNone
        /\ UNCHANGED irrigations

IrrStop ==
    /\ irr' = IrrigationSystem_stop(irr)
    /\ call' = [op |-> "IrrigationSystem.stop"]
    /\ ret' = RetNone
    /\ UNCHANGED irrigations

OpenZone ==
    \E zone_number \in ZoneNumbers, jitter \in PressureJitter :
        LET done == open_zone(irr, zone_number, jitter) IN
        /\ irr' = done.s
        /\ call' = [op |-> "open_zone", zone_number |-> zone_number]
        /\ ret' = RetBool(done.ret)
        /\ UNCHANGED irrigations

CloseZone ==
    \E zone_number \in ZoneNumbers, jitter \in PressureJitter :
        LET done == close_zone(irr, zone_number, jitter) IN
        /\ irr' = done.s
        /\ call' = [op |-> "close_zone", zone_number |-> zone_number]
        /\ ret' = RetBool(done.ret)
        /\ UNCHANGED irrigations

SetFlowRate ==
    \E flow_rate \in FlowRates :
        LET done == set_flow_rate(irr, flow_rate) IN
        /\ irr' = done.s
        /\ call' = [op |-> "set_flow_rate", flow_rate |-> flow_rate]
        /\ ret' = RetBool(done.ret)
        /\ UNCHANGED irrigations

IrrigateZone ==
    \E zone_number \in ZoneNumbers, duration_minutes \in Durations,
       jitter1 \in PressureJitter, jitter2 \in PressureJitter :
        /\ irrigations < MaxIrrigations
        /\ irr' = irrigate_zone(irr, zone_number, duration_minutes, jitter1, jitter2)
        /\ irrigations' = IF irr.is_active THEN irrigations + 1 ELSE irrigations
        /\ call' = [op |-> "irrigate_zone", zone_number |-> zone_number,
                    duration_minutes |-> duration_minutes]
        /\ ret' = RetNone

AutoIrrigate ==
    \E current_soil_moisture \in Moistures, jitter \in PressureJitter :
        LET done == auto_irrigate(irr, current_soil_moisture, jitter) IN
        /\ irr' = done.s
        /\ call' = [op |-> "auto_irrigate",
                    current_soil_moisture |-> current_soil_moisture]
        /\ ret' = RetBool(done.ret)
        /\ UNCHANGED irrigations

NextIrr ==
    \/ IrrStart /\ UNCHANGED <<busAll, fertVars>>
    \/ IrrStop /\ UNCHANGED <<busAll, fertVars>>
    \/ OpenZone /\ UNCHANGED <<busAll, fertVars>>
    \/ CloseZone /\ UNCHANGED <<busAll, fertVars>>
    \/ SetFlowRate /\ UNCHANGED <<busAll, fertVars>>
    \/ IrrigateZone /\ UNCHANGED <<busAll, fertVars>>
    \/ AutoIrrigate /\ UNCHANGED <<busAll, fertVars>>

SpecIrr == Init /\ [][NextIrr]_vars

----------------------------------------------------------------------------
(* The schedule of the irrigation system *)

\* lists of times: none, one time, two times out of order, a repeated time
Schedules ==
    { << >>,
      <<TimeStr(6, 30)>>,
      <<TimeStr(18, 0), TimeStr(6, 0)>>,
      <<TimeStr(12, 15), TimeStr(6, 0), TimeStr(12, 15)>> }
\* clock readings: before, at and between the times, and after all of them
Clock == { [hour |-> 5, minute |-> 59], [hour |-> 6, minute |-> 0],
           [hour |-> 12, minute |-> 0], [hour |-> 18, minute |-> 0],
           [hour |-> 23, minute |-> 59] }

\* schedule_irrigation(times) called when the clock reads now
ScheduleCall(times, now) ==
    /\ irr' = schedule_irrigation(irr, times, now)
    /\ call' = [op |-> "schedule_irrigation", times |-> times, now |-> now]
    /\ ret' = RetNone
    /\ UNCHANGED irrigations

ScheduleIrrigation ==
    \E times \in Schedules, now \in Clock : ScheduleCall(times, now)

NextSchedule ==
    \/ IrrStart /\ UNCHANGED <<busAll, fertVars>>
    \/ IrrStop /\ UNCHANGED <<busAll, fertVars>>
    \/ ScheduleIrrigation /\ UNCHANGED <<busAll, fertVars>>

SpecSchedule == Init /\ [][NextSchedule]_vars

----------------------------------------------------------------------------
(* The fertilizer system driven by an external caller *)

\* products loaded: a compound and the single-nutrient one
LoadedTypes == {"NPK_15_15_15", "UREA"}
\* amounts of -40, 300, 500 and 520 kg: negative, part of the tank, the
\* whole tank, more than it
LoadAmounts ==
    {kg * MassScale :
        kg \in {-40, 300, DefaultTankCapacity, DefaultTankCapacity + 20}}
\* rates of -20, 0, 80, 200 and 220 kg/ha: negative, zero, inside the
\* range, its upper end, above it
Rates ==
    {rate * RateScale :
        rate \in {-20, 0, 80, DefaultMaxRate, DefaultMaxRate + 20}}
\* areas in hundredths of a hectare: -1 ha and 5 ha
Areas == {-100, 500}
\* zones of a field: nitrogen missing (deficit 20) over 5 ha, adequate
\* soil over 5 ha, potassium missing (deficit 40) over 10 ha
FieldZones ==
    { [area |-> 500, npk |-> [N |-> 1000, P |-> 1500, K |-> 4000]],
      [area |-> 500, npk |-> [N |-> 3000, P |-> 1500, K |-> 4000]],
      [area |-> 1000, npk |-> [N |-> 3000, P |-> 1500, K |-> 0]] }
ZoneLists == UNION {[1..n -> FieldZones] : n \in 0..MaxZoneList}

FertStart ==
    \E mode \in ApplicationMode :
        /\ fert' = FertilizerSystem_start(fert, mode)
        /\ call' = [op |-> "FertilizerSystem.start", mode |-> mode]
        /\ ret' = RetNone

FertStop ==
    /\ fert' = FertilizerSystem_stop(fert)
    /\ call' = [op |-> "FertilizerSystem.stop"]
    /\ ret' = RetNone

LoadFertilizer ==
    \E fertilizer_type \in LoadedTypes, amount \in LoadAmounts :
        LET done == load_fertilizer(fert, fertilizer_type, amount) IN
        /\ fert' = done.s
        /\ call' = [op |-> "load_fertilizer",
                    fertilizer_type |-> fertilizer_type, amount |-> amount]
        /\ ret' = done.ret

SetApplicationRate ==
    \E rate \in Rates :
        LET done == set_application_rate(fert, rate) IN
        /\ fert' = done.s
        /\ call' = [op |-> "set_application_rate", rate |-> rate]
        /\ ret' = done.ret

Apply ==
    \E area \in Areas :
        LET done == apply(fert, area) IN
        /\ done.s.applications_count <= MaxApplications
        /\ fert' = done.s
        /\ call' = [op |-> "apply", area |-> area]
        /\ ret' = done.ret

VariableRateApply ==
    \E zones \in ZoneLists :
        LET done == variable_rate_apply(fert, zones) IN
        /\ fert.applications_count < MaxApplications
        /\ fert' = done.s
        /\ call' = [op |-> "variable_rate_apply", zones |-> zones]
        /\ ret' = done.ret

NextFert ==
    \/ FertStart /\ UNCHANGED <<busAll, irrVars>>
    \/ FertStop /\ UNCHANGED <<busAll, irrVars>>
    \/ LoadFertilizer /\ UNCHANGED <<busAll, irrVars>>
    \/ SetApplicationRate /\ UNCHANGED <<busAll, irrVars>>
    \/ Apply /\ UNCHANGED <<busAll, irrVars>>
    \/ VariableRateApply /\ UNCHANGED <<busAll, irrVars>>

SpecFert == Init /\ [][NextFert]_vars

----------------------------------------------------------------------------
(* The recommendation of the fertilizer system *)

\* soil levels around the targets 30, 15 and 40 mg/kg: deficits above, at
\* and below 10, and none; 14.96 mg/kg is a reading with two decimals
NLevels == {1496, 1500, 2000, 2500, 3000, 3500}
PLevels == {200, 500, 800, 2000}
KLevels == {2500, 3000, 3500, 4500}
\* readings with all three nutrients, without N, with N alone, and empty
SoilSamples ==
    {[N |-> n, P |-> p, K |-> k] : n \in NLevels, p \in PLevels, k \in KLevels}
    \cup {[P |-> p, K |-> k] : p \in PLevels, k \in KLevels}
    \cup {[N |-> n] : n \in NLevels}
    \cup {<< >>}

\* systems asked for a recommendation: the default one as constructed, one
\* constructed with max_rate = 50.0, and the default one loaded with 300 kg
\* of urea, started and set to 80 kg/ha
RecommendingSystems ==
    LET default == FertilizerSystem(DefaultTankCapacity * MassScale,
                                    DefaultMaxRate * RateScale)
        loaded == load_fertilizer(default, "UREA", 300 * MassScale).s
        started == FertilizerSystem_start(loaded, "manual")
    IN  { default,
          FertilizerSystem(DefaultTankCapacity * MassScale, 50 * RateScale),
          set_application_rate(started, 80 * RateScale).s }

InitRecommend ==
    /\ BusInit(RATE_250K)
    /\ call = [op |-> "init"]
    /\ ret = RetNone
    /\ injected = << >>
    /\ held = 0
    /\ IrrInit
    /\ fert \in RecommendingSystems

Recommend ==
    \E current_npk \in SoilSamples :
        LET done == recommend_fertilizer(fert, current_npk) IN
        /\ fert' = done.s
        /\ call' = [op |-> "recommend_fertilizer", current_npk |-> current_npk]
        /\ ret' = done.ret

NextRecommend == Recommend /\ UNCHANGED <<busAll, irrVars>>

SpecRecommend == InitRecommend /\ [][NextRecommend]_vars

----------------------------------------------------------------------------
(* Doses: small and large areas treated at one rate from a full tank, so    *)
(* that the tank always holds a whole number of hundredths of a hectare at  *)
(* that rate                                                                *)

\* at most this many applications
MaxDoses == 3
\* products loaded: one with 4 % of nitrogen, and urea
DoseTypes == {"NPK_04_14_08", "UREA"}
\* the rate of 80.0 kg/ha
DoseRates == {80 * RateScale}
\* areas of 0.01, 0.03, 2.5 and 5 ha
DoseAreas == {1, 3, 250, 500}

LoadTank ==
    \E fertilizer_type \in DoseTypes :
        LET amount == DefaultTankCapacity * MassScale
            done == load_fertilizer(fert, fertilizer_type, amount)
        IN  /\ fert' = done.s
            /\ call' = [op |-> "load_fertilizer",
                        fertilizer_type |-> fertilizer_type,
                        amount |-> amount]
            /\ ret' = done.ret

StartManual ==
    /\ fert' = FertilizerSystem_start(fert, "manual")
    /\ call' = [op |-> "FertilizerSystem.start", mode |-> "manual"]
    /\ ret' = RetNone

SetDoseRate ==
    \E rate \in DoseRates :
        LET done == set_application_rate(fert, rate) IN
        /\ fert' = done.s
        /\ call' = [op |-> "set_application_rate", rate |-> rate]
        /\ ret' = done.ret

ApplyDose ==
    \E area \in DoseAreas :
        LET done == apply(fert, area) IN
        /\ fert.applications_count < MaxDoses
        /\ fert' = done.s
        /\ call' = [op |-> "apply", area |-> area]
        /\ ret' = done.ret

NextDose ==
    \/ LoadTank /\ UNCHANGED <<busAll, irrVars>>
    \/ StartManual /\ UNCHANGED <<busAll, irrVars>>
    \/ FertStop /\ UNCHANGED <<busAll, irrVars>>
    \/ SetDoseRate /\ UNCHANGED <<busAll, irrVars>>
    \/ ApplyDose /\ UNCHANGED <<busAll, irrVars>>

SpecDose == Init /\ [][NextDose]_vars

----------------------------------------------------------------------------
(* Both actuators.  The two objects share no attribute: one of them is      *)
(* driven while the other is as constructed.                                *)

FertAsConstructed ==
    fert = FertilizerSystem(DefaultTankCapacity * MassScale,
                            DefaultMaxRate * RateScale)
IrrAsConstructed ==
    /\ irr = IrrigationSystem(DefaultZones, DefaultMaxFlowRate)
    /\ irrigations = 0

\* the irrigation scheduled for 18:00 and 06:00, at noon
ScheduleDaily ==
    ScheduleCall(<<TimeStr(18, 0), TimeStr(6, 0)>>, [hour |-> 12, minute |-> 0])

NextActuators ==
    \/ FertAsConstructed /\ IrrStart /\ UNCHANGED <<busAll, fertVars>>
    \/ FertAsConstructed /\ IrrStop /\ UNCHANGED <<busAll, fertVars>>
    \/ FertAsConstructed /\ OpenZone /\ UNCHANGED <<busAll, fertVars>>
    \/ FertAsConstructed /\ SetFlowRate /\ UNCHANGED <<busAll, fertVars>>
    \/ FertAsConstructed /\ IrrigateZone /\ UNCHANGED <<busAll, fertVars>>
    \/ FertAsConstructed /\ ScheduleDaily /\ UNCHANGED <<busAll, fertVars>>
    \/ IrrAsConstructed /\ FertStart /\ UNCHANGED <<busAll, irrVars>>
    \/ IrrAsConstructed /\ FertStop /\ UNCHANGED <<busAll, irrVars>>
    \/ IrrAsConstructed /\ LoadFertilizer /\ UNCHANGED <<busAll, irrVars>>
    \/ IrrAsConstructed /\ SetApplicationRate /\ UNCHANGED <<busAll, irrVars>>
    \/ IrrAsConstructed /\ Apply /\ UNCHANGED <<busAll, irrVars>>

SpecActuators == Init /\ [][NextActuators]_vars

----------------------------------------------------------------------------
(* Properties *)

\* the identifiers of rx_filters
FilterSet == {rx_filters[i] : i \in 1..Len(rx_filters)}

\* the message the last call was made with, or the construction error
CallMade == CANMessage(call.can_id, call.data, call.is_extended)

\* messages queued in both buffers
QueuedFrames == Len(tx_buffer) + Len(rx_buffer)

\* C1: constructing a message fails when the payload is longer than 8 bytes
\* or the identifier exceeds 0x7FF (standard) or 0x1FFFFFFF (extended), and
\* otherwise succeeds with dlc equal to the payload length; 0x7FF standard and
\* 0x1FFFFFFF extended succeed, 0x800 standard and 0x20000000 extended fail,
\* 9 bytes fail and 8 bytes give dlc 8.
C1_FrameConstruction ==
    call.op = "CANMessage" =>
        LET len == Len(call.data)
            tooLong == len > 8
            outOfRange == IF call.is_extended THEN call.can_id > 536870911
                                              ELSE call.can_id > 2047
        IN  /\ (tooLong \/ outOfRange) => ret.kind = "raise"
            /\ ~(tooLong \/ outOfRange) =>
                   /\ ret.kind = "msg"
                   /\ ret.msg.dlc = len
                   /\ ret.msg.can_id = call.can_id
                   /\ ret.msg.data = call.data
                   /\ ret.msg.is_extended = call.is_extended
            /\ (len <= 8 /\ ~call.is_extended /\ call.can_id = 2047) => ret.kind = "msg"
            /\ (len <= 8 /\ call.is_extended /\ call.can_id = 536870911) => ret.kind = "msg"
            /\ (~call.is_extended /\ call.can_id = 2048) => ret.kind = "raise"
            /\ (call.is_extended /\ call.can_id = 536870912) => ret.kind = "raise"
            /\ len = 9 => ret.kind = "raise"
            /\ (len = 8 /\ ret.kind = "msg") => ret.msg.dlc = 8

\* an extended message at 0x1FFFFFFF with 8 bytes was constructed, with dlc 8
C1_Witness ==
    /\ call.op = "CANMessage"
    /\ call.is_extended
    /\ call.can_id = MaxExtendedId
    /\ Len(call.data) = 8
    /\ ret.kind = "msg"
    /\ ret.msg.dlc = 8

\* the receive buffer holds, in order, the injected messages not yet received
FifoOrder ==
    /\ messages_received <= Len(injected)
    /\ rx_buffer = SubSeq(injected, messages_received + 1, Len(injected))

\* a receive_message step pops the oldest message, or changes nothing
ReceiveStep ==
    call'.op = "receive_message" =>
        IF is_active /\ rx_buffer # << >>
        THEN /\ ret' = RetMsg(rx_buffer[1])
             /\ ret'.msg = injected[messages_received + 1]
             /\ Len(rx_buffer') = Len(rx_buffer) - 1
             /\ \A i \in 1..Len(rx_buffer') : rx_buffer'[i] = rx_buffer[i + 1]
             /\ messages_received' = messages_received + 1
        ELSE /\ ret' = RetNone
             /\ rx_buffer' = rx_buffer
             /\ messages_received' = messages_received

\* C2: receive on an active bus with a non-empty receive buffer removes and
\* returns the oldest message (messages come out in the order inject accepted
\* them) and adds one to messages_received; on an inactive bus or an empty
\* buffer it returns no message and leaves both unchanged.
C2_ReceiveFifo == []FifoOrder /\ [][ReceiveStep]_vars

\* two different messages were injected and both received, the second just now
C2_Witness ==
    /\ call.op = "receive_message"
    /\ ret.kind = "msg"
    /\ messages_received = 2
    /\ injected[1] # injected[2]
    /\ ret.msg = injected[2]

\* a simulate_incoming_message step appends exactly when the bus is active and
\* the filter list is empty or holds the identifier
InjectStep ==
    call'.op = "simulate_incoming_message" =>
        LET made == CANMessage(call'.can_id, call'.data, call'.is_extended)
            accepted == is_active /\ (FilterSet = {} \/ call'.can_id \in FilterSet)
        IN  /\ (made.ok /\ accepted) => rx_buffer' = rx_buffer \o <<made.msg>>
            /\ ~(made.ok /\ accepted) => rx_buffer' = rx_buffer
            /\ messages_received' = messages_received

\* C3: inject appends the message to the tail of the receive buffer exactly
\* when the bus is active and the filter is empty or holds the message's
\* identifier; otherwise the receive buffer is unchanged; inject never changes
\* messages_received.  (A message is what the constructor accepts: arguments
\* it rejects are never appended.)
C3_InjectFilter == [][InjectStep]_vars

\* a constructible message was injected on an active bus whose non-empty
\* filter excludes its identifier, and nothing was queued
C3_Witness ==
    /\ call.op = "simulate_incoming_message"
    /\ is_active
    /\ CallMade.ok
    /\ FilterSet # {}
    /\ call.can_id \notin FilterSet
    /\ rx_buffer = << >>
    /\ injected = << >>
    /\ messages_received = 0

\* a send_message step on an inactive bus fails and changes nothing; on an
\* active bus with a constructible message it appends and counts it
SendStep ==
    call'.op = "send_message" =>
        LET made == CANMessage(call'.can_id, call'.data, call'.is_extended)
        IN  /\ ~is_active =>
                   /\ ret' = RetBool(FALSE)
                   /\ tx_buffer' = tx_buffer
                   /\ messages_sent' = messages_sent
                   /\ bus_load' = bus_load
                   /\ error_count' = error_count
                   /\ errors' = errors
            /\ (is_active /\ made.ok) =>
                   /\ ret' = RetBool(TRUE)
                   /\ tx_buffer' = tx_buffer \o <<made.msg>>
                   /\ messages_sent' = messages_sent + 1

\* C4: transmit on an inactive bus reports failure and leaves the transmit
\* buffer, messages_sent, bus_load, error_count and errors unchanged; on an
\* active bus with a valid message it appends the message to the tail of the
\* transmit buffer and adds one to messages_sent.
C4_SendInactive == [][SendStep]_vars

\* a valid message was refused by a bus that had been stopped after sending
C4_Witness ==
    /\ call.op = "send_message"
    /\ ~is_active
    /\ CallMade.ok
    /\ ret = RetBool(FALSE)
    /\ tx_buffer # << >>

\* a send_message step on an active bus whose message fails construction
SendErrorStep ==
    call'.op = "send_message" =>
        LET made == CANMessage(call'.can_id, call'.data, call'.is_extended)
        IN  (is_active /\ ~made.ok) =>
                /\ ret' = RetBool(FALSE)
                /\ error_count' = error_count + 1
                /\ Len(errors') = Len(errors) + 1
                /\ SubSeq(errors', 1, Len(errors)) = errors
                /\ tx_buffer' = tx_buffer
                /\ messages_sent' = messages_sent

\* C5: transmit on an active bus with a message that fails construction
\* reports failure, adds exactly one to error_count, appends exactly one entry
\* to errors and leaves the transmit buffer and messages_sent unchanged.
C5_SendConstructionError == [][SendErrorStep]_vars

\* an active bus refused a non-constructible message after sending a valid one
C5_Witness ==
    /\ call.op = "send_message"
    /\ is_active
    /\ ~CallMade.ok
    /\ ret = RetBool(FALSE)
    /\ error_count = 1
    /\ Len(errors) = 1
    /\ messages_sent = 1

\* the traffic counters and the error log do not shrink in a step
CountersGrow ==
    /\ messages_sent' >= messages_sent
    /\ messages_received' >= messages_received
    /\ Len(errors') >= Len(errors)

\* C6 as stated: messages_sent, messages_received, error_count and the length
\* of errors never decrease over any sequence of bus operations, re-activation
\* of a bus that has recorded errors included.
C6_CountersNeverDecrease ==
    [][CountersGrow /\ error_count' >= error_count]_vars

\* C6 as amended: messages_sent, messages_received and the length of errors
\* never decrease, and errors only grows at its tail; error_count never
\* decreases in any operation but start(), which resets it to 0.
C6_CountersGrowButStartResets ==
    [][/\ CountersGrow
       /\ SubSeq(errors', 1, Len(errors)) = errors
       /\ call'.op # "start" => error_count' >= error_count
       /\ call'.op = "start" => error_count' = 0]_vars

\* a bus that has logged an error was started again: the count is back at 0
C6_Witness ==
    /\ call.op = "start"
    /\ errors # << >>
    /\ error_count = 0
    /\ messages_sent > 0

\* C7: in every reachable state bus_load equals
\* min(100, queued messages * bits per frame / baud rate * 100), the queued
\* messages being those of the transmit and the receive buffer: it is
\* recomputed after transmit, after an accepted inject and after a
\* successful receive.
C7_LoadIsCurrent ==
    bus_load = Min(100 * LoadScale,
                   (QueuedFrames * BitsPerFrame * 100 * LoadScale) \div baudrate)

\* C8: bus_load is within [0, 100] in every reachable state of the bus, for
\* every baud rate of CANBaudRate and any number of queued messages.
C8_LoadWithinPercent ==
    /\ baudrate \in CANBaudRate
    /\ 0 <= bus_load
    /\ bus_load <= 100 * LoadScale

\* a message was sent with more messages queued than the baud rate carries:
\* the load is held at 100
C8_Witness ==
    /\ call.op = "send_message"
    /\ ret = RetBool(TRUE)
    /\ QueuedFrames * BitsPerFrame > baudrate
    /\ bus_load = 100 * LoadScale

\* C9: bus_load is monotonic in the number of queued messages at a fixed baud
\* rate: of two reachable states, the one with at most as many queued messages
\* has at most as much bus_load (stated of a state and its successor).
C9_LoadMonotonic ==
    [][/\ QueuedFrames <= QueuedFrames' => bus_load <= bus_load'
       /\ QueuedFrames' <= QueuedFrames => bus_load' <= bus_load]_vars

\* a stop() step changes is_active and nothing else of the bus
StopStep ==
    call'.op = "stop" =>
        /\ is_active' = FALSE
        /\ tx_buffer' = tx_buffer
        /\ rx_buffer' = rx_buffer
        /\ rx_filters' = rx_filters
        /\ messages_sent' = messages_sent
        /\ messages_received' = messages_received
        /\ error_count' = error_count
        /\ errors' = errors

\* the messages that were queued at the last stop() and are not yet received
\* are the head of the receive buffer, in the order they were injected
HeldInOrder ==
    /\ held <= Len(injected)
    /\ \A i \in (messages_received + 1)..held :
           /\ i - messages_received <= Len(rx_buffer)
           /\ rx_buffer[i - messages_received] = injected[i]

\* a successful receive_message returns the head of the receive buffer
ReceiveHead ==
    (call'.op = "receive_message" /\ ret'.kind = "msg") =>
        /\ rx_buffer # << >>
        /\ ret'.msg = Head(rx_buffer)
        /\ rx_buffer' = Tail(rx_buffer)

\* C10: deactivate changes only is_active (the buffers, the filter, the
\* counters and the error log are unchanged), and after a later activate the
\* messages that were in the receive buffer before deactivation are returned
\* by receive in their original order.
C10_StopKeepsQueues == []HeldInOrder /\ [][StopStep /\ ReceiveHead]_vars

\* two different messages were queued when the bus was stopped; after it was
\* started again the second of them has just been received
C10_Witness ==
    /\ call.op = "receive_message"
    /\ ret.kind = "msg"
    /\ is_active
    /\ held = 2
    /\ messages_received = 2
    /\ injected[1] # injected[2]
    /\ ret.msg = injected[2]
    /\ tx_buffer # << >>

\* an add_rx_filter or clear_rx_filters step changes rx_filters alone
FilterStepFrame ==
    call'.op \in {"add_rx_filter", "clear_rx_filters"} =>
        /\ rx_buffer' = rx_buffer
        /\ tx_buffer' = tx_buffer
        /\ messages_sent' = messages_sent
        /\ messages_received' = messages_received
        /\ error_count' = error_count
        /\ errors' = errors
        /\ bus_load' = bus_load
        /\ is_active' = is_active

\* add_rx_filter(x) leaves a list that holds x unchanged, and otherwise leaves
\* a list that a second add_rx_filter(x) leaves unchanged
AddFilterStep ==
    call'.op = "add_rx_filter" =>
        LET x == call'.can_id
            once == rx_filters'
            twice == IF \E i \in 1..Len(once) : once[i] = x THEN once
                                                           ELSE once \o <<x>>
        IN  /\ x \in FilterSet => rx_filters' = rx_filters
            /\ x \notin FilterSet => rx_filters' = rx_filters \o <<x>>
            /\ Len(once) = Cardinality({once[i] : i \in 1..Len(once)})
            /\ twice = once

\* clear_rx_filters empties the list, and with an empty list an active bus
\* appends every constructible message that is injected
ClearFilterStep ==
    /\ call'.op = "clear_rx_filters" => rx_filters' = << >>
    /\ (call'.op = "simulate_incoming_message" /\ rx_filters = << >> /\ is_active
        /\ CANMessage(call'.can_id, call'.data, call'.is_extended).ok) =>
           Len(rx_buffer') = Len(rx_buffer) + 1

\* C11: add_filter is idempotent (adding an identifier already in the filter
\* leaves it unchanged, and adding x twice gives the same state as once);
\* clear_filters empties the filter so that every identifier is accepted by
\* later inject calls; neither changes the buffers or any counter.
C11_FilterIdempotent == [][FilterStepFrame /\ AddFilterStep /\ ClearFilterStep]_vars

\* the filter holds two identifiers and the one added first was just added
\* again: the list did not grow
C11_Witness ==
    /\ call.op = "add_rx_filter"
    /\ Len(rx_filters) = 2
    /\ rx_filters[1] = call.can_id
    /\ rx_filters[2] # call.can_id
    /\ rx_buffer # << >>

\* the reserved identifiers and command bytes
ReservedSensorId ==
    "temperature" :> 256 @@ "humidity" :> 257 @@ "pressure" :> 258 @@
    "soil_moisture" :> 259 @@ "npk" :> 260
ReservedActuatorId == "irrigation" :> 512 @@ "fertilizer" :> 513 @@ "valve" :> 514
ReservedCommand == "start" :> 1 @@ "stop" :> 2 @@ "set_rate" :> 3 @@ "status" :> 4

\* the step published one message with this identifier at the tail of tx_buffer
Published(can_id) ==
    /\ ret' = RetBool(TRUE)
    /\ Len(tx_buffer') = Len(tx_buffer) + 1
    /\ SubSeq(tx_buffer', 1, Len(tx_buffer)) = tx_buffer
    /\ tx_buffer'[Len(tx_buffer')].can_id = can_id
    /\ messages_sent' = messages_sent + 1

\* the step reported failure and queued nothing
NotPublished ==
    /\ ret' = RetBool(FALSE)
    /\ tx_buffer' = tx_buffer
    /\ messages_sent' = messages_sent

PublishSensorStep ==
    \A t \in DOMAIN ReservedSensorId, v \in SensorValues :
        send_sensor_data(t, v) =>
            IF is_active THEN Published(ReservedSensorId[t]) ELSE NotPublished

PublishActuatorStep ==
    \A t \in DOMAIN ReservedActuatorId, c \in DOMAIN ReservedCommand, v \in ActuatorValues :
        send_actuator_command(t, c, v) =>
            IF is_active
            THEN /\ Published(ReservedActuatorId[t])
                 /\ tx_buffer'[Len(tx_buffer')].data =
                        <<ReservedCommand[c], (v % 65536) \div 256, (v % 65536) % 256,
                          0, 0, 0, 0, 0>>
                 /\ tx_buffer'[Len(tx_buffer')].dlc = 8
            ELSE NotPublished

\* C12: publish_sensor_reading queues a message with identifier 0x100..0x104
\* for temperature, humidity, pressure, soil moisture, NPK; publish_actuator_command
\* queues a message with identifier 0x200..0x202 for irrigation, fertilizer, valve
\* whose payload is the command byte 1..4 for start, stop, set_rate, status, then
\* the value modulo 2^16 as high byte and low byte, then zeros up to 8 bytes;
\* both report failure and queue nothing on an inactive bus.
C12_PublishVocabulary == [][PublishSensorStep /\ PublishActuatorStep]_vars

\* an NPK reading and then a valve set_rate command with value 450 (0x01C2) or
\* 450 + 2^16 were published
C12_Witness ==
    /\ call.op = "send_message"
    /\ ret = RetBool(TRUE)
    /\ Len(tx_buffer) = 2
    /\ tx_buffer[1].can_id = 260
    /\ tx_buffer[2].can_id = 514
    /\ tx_buffer[2].data = <<3, 1, 194, 0, 0, 0, 0, 0>>


----------------------------------------------------------------------------
(* Irrigation controller *)

OpenZones(s) == {zone \in DOMAIN s.zones_status : s.zones_status[zone]}
NoZoneOpen(s) == OpenZones(s) = {}
\* the flow the open-zone count gives
DerivedFlow(s, open_count) ==
    Min(s.max_flow_rate, open_count * (s.max_flow_rate \div s.num_zones))
\* the pressure is zero with no zone open, else the base value with its jitter
PressureRecomputed(s) ==
    IF NoZoneOpen(s)
    THEN s.current_pressure = 0
    ELSE /\ s.current_pressure >= BasePressure - 2
         /\ s.current_pressure <= BasePressure + 2

\* C13: in every reachable state, flow_rate = 0 and pressure = 0 whenever
\* no zone is open.
C13_ClosedMeansNoFlow ==
    NoZoneOpen(irr) => irr.current_flow_rate = 0 /\ irr.current_pressure = 0

\* C14: in every reachable state, 0 <= flow_rate <= max_flow_rate.
C14_FlowWithinRange ==
    /\ irr.current_flow_rate >= 0
    /\ irr.current_flow_rate <= irr.max_flow_rate

\* the flow is at its ceiling and a request above the ceiling was refused
C14_Witness ==
    /\ call.op = "set_flow_rate"
    /\ call.flow_rate > irr.max_flow_rate
    /\ ret = RetBool(FALSE)
    /\ irr.is_active
    /\ irr.current_flow_rate = irr.max_flow_rate

ZoneStepOk ==
    /\ call'.op \in {"open_zone", "close_zone"}
    /\ ret' = RetBool(TRUE)

\* C15: after every successful open_zone or close_zone the flow is
\* min(max_flow_rate, open_zone_count * (max_flow_rate / zone_count)); with
\* 4 zones and a ceiling of 100, two open zones give 50, four give 100, and
\* no open zone gives flow 0 and pressure 0.
C15_FlowFromOpenZones ==
    [][ZoneStepOk =>
        LET open_count == Cardinality(OpenZones(irr')) IN
        /\ irr'.current_flow_rate = DerivedFlow(irr', open_count)
        /\ (irr'.num_zones = 4 /\ irr'.max_flow_rate = 100 =>
                /\ open_count = 2 => irr'.current_flow_rate = 50
                /\ open_count = 4 => irr'.current_flow_rate = 100)
        /\ (open_count = 0 =>
                irr'.current_flow_rate = 0 /\ irr'.current_pressure = 0)]_vars

\* a zone was closed and two of the four zones stay open
C15_Witness ==
    /\ call.op = "close_zone"
    /\ ret = RetBool(TRUE)
    /\ ~irr.zones_status[call.zone_number]
    /\ Cardinality(OpenZones(irr)) = 2
    /\ irr.current_flow_rate = 50
    /\ irr.current_pressure = BasePressure - 2

\* C16: open_zone(n) and close_zone(n) report failure and change nothing
\* when the controller is inactive or n is outside 1..zone_count; otherwise
\* they report success and set zone n open (closed), no other zone changing.
C16_ZoneCallsGuarded ==
    [][call'.op \in {"open_zone", "close_zone"} =>
        LET n == call'.zone_number IN
        IF ~irr.is_active \/ n \notin 1..irr.num_zones
        THEN ret' = RetBool(FALSE) /\ irr' = irr
        ELSE /\ ret' = RetBool(TRUE)
             /\ irr'.zones_status =
                    [irr.zones_status EXCEPT ![n] = (call'.op = "open_zone")]]_vars

\* set_flow_rate(r) fails and changes nothing when the controller is
\* inactive or r is out of range, and otherwise sets the flow to r
SetFlowRateStep ==
    call'.op = "set_flow_rate" =>
        LET r == call'.flow_rate IN
        IF ~irr.is_active \/ r < 0 \/ r > irr.max_flow_rate
        THEN ret' = RetBool(FALSE) /\ irr' = irr
        ELSE /\ ret' = RetBool(TRUE)
             /\ irr' = [irr EXCEPT !.current_flow_rate = r]

\* the step is a successful set_flow_rate, or it opens or closes a zone
\* successfully: open_zone and close_zone themselves, irrigate_zone of a
\* valid zone on an active controller, a triggered auto_irrigate
ZonesRecomputed ==
    \/ call'.op \in {"set_flow_rate", "open_zone", "close_zone", "auto_irrigate"}
       /\ ret' = RetBool(TRUE)
    \/ /\ call'.op = "irrigate_zone"
       /\ irr.is_active
       /\ call'.zone_number \in 1..irr.num_zones

\* the flow differs from the one the open zones give: set_flow_rate set it
FlowOverridden ==
    irr.current_flow_rate # DerivedFlow(irr, Cardinality(OpenZones(irr)))

\* C17 as stated: set_flow_rate(r) fails and leaves the flow unchanged when
\* the controller is inactive or r < 0 or r > max_flow_rate; otherwise the
\* flow is r, and stays r until the next successful open_zone or
\* close_zone, which replaces it with the value the open zones give.
C17_SetFlowStaysUntilZoneChange ==
    [][/\ SetFlowRateStep
       /\ (FlowOverridden /\ irr'.current_flow_rate # irr.current_flow_rate
              => ZonesRecomputed)
       /\ (ZoneStepOk => ~FlowOverridden')]_vars

\* C17 amended: set_flow_rate(r) fails and leaves the flow unchanged when
\* the controller is inactive or r < 0 or r > max_flow_rate; otherwise the
\* flow is r, and stays r until the next successful open_zone or
\* close_zone, which replaces it with the value the open zones give, or
\* until stop(), which resets it to 0.
C17_SetFlowStaysUntilZoneChangeOrStop ==
    [][/\ SetFlowRateStep
       /\ (FlowOverridden /\ irr'.current_flow_rate # irr.current_flow_rate
              => ZonesRecomputed \/ call'.op = "IrrigationSystem.stop")
       /\ (ZoneStepOk => ~FlowOverridden')
       /\ (call'.op = "IrrigationSystem.stop" => irr'.current_flow_rate = 0)]_vars

\* with two zones open, which give 50, the flow was set to 40
C17_Witness ==
    /\ call = [op |-> "set_flow_rate", flow_rate |-> 40]
    /\ ret = RetBool(TRUE)
    /\ Cardinality(OpenZones(irr)) = 2
    /\ irr.current_flow_rate = 40

\* C18: irrigate_zone(n, d) on an active controller with a valid zone n
\* adds d to the operating minutes, adds d times the flow found after zone
\* n was opened to the volume dispensed, and leaves zone n closed with flow
\* and pressure recomputed; on an inactive controller it changes nothing.
C18_IrrigateZone ==
    [][call'.op = "irrigate_zone" =>
        LET n == call'.zone_number
            d == call'.duration_minutes
        IN  /\ (~irr.is_active => irr' = irr)
            /\ (irr.is_active /\ n \in 1..irr.num_zones =>
                    LET flow == DerivedFlow(irr, Cardinality(OpenZones(irr) \cup {n}))
                    IN  /\ irr'.operation_time = irr.operation_time + d
                        /\ irr'.total_volume = irr.total_volume + flow * d
                        /\ irr'.zones_status = [irr.zones_status EXCEPT ![n] = FALSE]
                        /\ ~FlowOverridden'
                        /\ PressureRecomputed(irr'))]_vars

\* zone 2 was irrigated for 10 minutes next to an open zone, after the
\* flow had been set to 40 by hand: 50 * 10 was dispensed, not 40 * 10
C18_Witness ==
    /\ call = [op |-> "irrigate_zone", zone_number |-> 2, duration_minutes |-> 10]
    /\ irr.operation_time = 10
    /\ irr.total_volume = 500
    /\ OpenZones(irr) = {1}
    /\ irr.current_flow_rate = 25
    /\ irr.last_irrigation = "stamped"

\* C19: auto_irrigate(m) reports "triggered" exactly when the controller is
\* active, the mode is automatic and m < target moisture, and then every
\* zone is open afterwards; in every other case it reports "not triggered"
\* and no zone, flow or pressure changes.
C19_AutoIrrigate ==
    [][call'.op = "auto_irrigate" =>
        LET m == call'.current_soil_moisture IN
        IF irr.is_active /\ irr.mode = "automatic" /\ m < irr.target_soil_moisture
        THEN /\ ret' = RetBool(TRUE)
             /\ OpenZones(irr') = 1..irr.num_zones
        ELSE /\ ret' = RetBool(FALSE)
             /\ irr'.zones_status = irr.zones_status
             /\ irr'.current_flow_rate = irr.current_flow_rate
             /\ irr'.current_pressure = irr.current_pressure]_vars

\* a moisture of 45 against the target of 50 opened all four zones
C19_Witness ==
    /\ call = [op |-> "auto_irrigate", current_soil_moisture |-> 45]
    /\ ret = RetBool(TRUE)
    /\ irr.mode = "automatic"
    /\ OpenZones(irr) = 1..4
    /\ irr.current_flow_rate = 100

\* C20: the volume dispensed and the operating minutes never decrease,
\* whatever the operation and whatever the duration given to irrigate_zone.
C20_TotalsNeverDecrease ==
    [][/\ irr'.total_volume >= irr.total_volume
       /\ irr'.operation_time >= irr.operation_time]_vars

----------------------------------------------------------------------------
(* Both actuators: stop() *)

\* C21: stop() leaves either controller inactive with mode off (irrigation:
\* every zone closed, flow 0, pressure 0; fertilization: rate 0), and a
\* second stop() right after it changes nothing.
C21_StopIdempotent ==
    /\ call.op = "IrrigationSystem.stop" =>
           /\ ~irr.is_active
           /\ irr.mode = "off"
           /\ NoZoneOpen(irr)
           /\ irr.current_flow_rate = 0
           /\ irr.current_pressure = 0
           /\ IrrigationSystem_stop(irr) = irr
    /\ call.op = "FertilizerSystem.stop" =>
           /\ ~fert.is_active
           /\ fert.mode = "off"
           /\ fert.application_rate = 0
           /\ FertilizerSystem_stop(fert) = fert

\* the irrigation system was stopped after it had irrigated and had been
\* given a schedule
C21_Witness ==
    /\ call.op = "IrrigationSystem.stop"
    /\ irr.last_irrigation = "stamped"
    /\ irr.schedule_times # << >>

\* C22: stop() resets no cumulative state.  Irrigation: the volume
\* dispensed, the operating minutes, the target moisture and the schedule
\* are unchanged.  Fertilization: the tank level, the loaded product, the
\* mass applied, the area covered and the application count are unchanged.
C22_StopKeepsTotals ==
    [][/\ call'.op = "IrrigationSystem.stop" =>
              /\ irr'.total_volume = irr.total_volume
              /\ irr'.operation_time = irr.operation_time
              /\ irr'.target_soil_moisture = irr.target_soil_moisture
              /\ irr'.schedule_times = irr.schedule_times
       /\ call'.op = "FertilizerSystem.stop" =>
              /\ fert'.tank_level = fert.tank_level
              /\ fert'.current_fertilizer = fert.current_fertilizer
              /\ fert'.total_applied = fert.total_applied
              /\ fert'.area_covered = fert.area_covered
              /\ fert'.applications_count = fert.applications_count]_vars

\* the fertilizer system was stopped after it had emptied a tank of 300 kg
\* over 3.75 ha
C22_Witness ==
    /\ call.op = "FertilizerSystem.stop"
    /\ fert.current_fertilizer # "None"
    /\ fert.tank_level = 0
    /\ fert.total_applied = 300 * MassScale
    /\ fert.area_covered = 375
    /\ fert.applications_count = 1

----------------------------------------------------------------------------
(* Irrigation schedule *)

\* minutes since midnight of the time "HH:MM"
MinuteOfDay(time_str) ==
    60 * (10 * time_str[1] + time_str[2]) + 10 * time_str[4] + time_str[5]
Earliest(minutes) == CHOOSE m \in minutes : \A n \in minutes : m <= n
At(day, minute_of_day) ==
    <<[day |-> day, hour |-> minute_of_day \div 60, minute |-> minute_of_day % 60]>>

\* C23: schedule(times) replaces the stored schedule and sets the next run
\* to the earliest scheduled time of day strictly after the current time
\* today, or, if every scheduled time has passed today, to the earliest
\* scheduled time of day tomorrow, and to none when times is empty.
C23_ScheduleNext ==
    [][call'.op = "schedule_irrigation" =>
        LET times == call'.times
            now == 60 * call'.now.hour + call'.now.minute
            all == {MinuteOfDay(times[i]) : i \in 1..Len(times)}
            left == {m \in all : m > now}
        IN  /\ irr'.schedule_times = times
            /\ irr'.next_scheduled =
                   IF times = << >> THEN << >>
                   ELSE IF left # {} THEN At("today", Earliest(left))
                   ELSE At("tomorrow", Earliest(all))]_vars

\* 18:00 and 06:00 were scheduled at 18:00 sharp: the next run is tomorrow
\* at 06:00
C23_Witness ==
    /\ call.op = "schedule_irrigation"
    /\ call.now = [hour |-> 18, minute |-> 0]
    /\ irr.schedule_times = <<TimeStr(18, 0), TimeStr(6, 0)>>
    /\ irr.next_scheduled = At("tomorrow", 360)

----------------------------------------------------------------------------
(* Fertilizer controller *)

\* C24: in every reachable state the tank level is at most the tank
\* capacity, whatever the operations and their arguments.
C24_TankWithinCapacity == fert.tank_level <= fert.tank_capacity

\* C25: in every reachable state the tank level is at least 0.
C25_TankNeverNegative == fert.tank_level >= 0

ApplyDone == call'.op = "apply" /\ ret'.kind = "applied"

\* C26: an apply(area) that needs more than the tank holds applies what the
\* tank holds over tank_level / application_rate hectares and leaves the
\* tank empty (rate 80, area 5, tank 300: 3.75 ha, tank 0); otherwise it
\* applies rate * area over the area given.  Either way the tank level
\* drops by the amount, the mass applied grows by it, the area covered
\* grows by the area covered and the application count grows by one.
C26_ApplyClamps ==
    [][ApplyDone =>
        LET rate == fert.application_rate
            area == call'.area
            amount == ret'.amount_applied_kg * (MassScale \div 100)
            covered == ret'.area_hectares
        IN  /\ IF rate * area > fert.tank_level
               THEN /\ amount = fert.tank_level
                    /\ covered * rate = fert.tank_level
                    /\ fert'.tank_level = 0
               ELSE /\ amount = rate * area
                    /\ covered = area
            /\ (/\ rate = 80 * RateScale
                /\ area = 5 * AreaScale
                /\ fert.tank_level = 300 * MassScale
                => covered = 375 /\ fert'.tank_level = 0)
            /\ fert'.tank_level = fert.tank_level - amount
            /\ fert'.total_applied = fert.total_applied + amount
            /\ fert'.area_covered = fert.area_covered + covered
            /\ fert'.applications_count = fert.applications_count + 1]_vars

\* 5 ha at 80 kg/ha were asked of a tank of 300 kg: 3.75 ha were covered
C26_Witness ==
    /\ call = [op |-> "apply", area |-> 500]
    /\ ret.kind = "applied"
    /\ ret.application_rate = 80 * RateScale
    /\ ret.amount_applied_kg = 300 * 100
    /\ ret.area_hectares = 375
    /\ fert.tank_level = 0

\* C27: apply fails when the controller is inactive, when no product is
\* loaded or when the rate is 0, and then the tank level, the mass applied,
\* the area covered, the application count and the time of the last
\* application are unchanged.
C27_ApplyFails ==
    [][call'.op = "apply"
       /\ (~fert.is_active \/ fert.current_fertilizer = "None"
              \/ fert.application_rate = 0)
       => /\ ret'.kind = "raise"
          /\ fert'.tank_level = fert.tank_level
          /\ fert'.total_applied = fert.total_applied
          /\ fert'.area_covered = fert.area_covered
          /\ fert'.applications_count = fert.applications_count
          /\ fert'.last_application = fert.last_application]_vars

\* apply was refused for its rate of 0 on an active system with a product
C27_Witness ==
    /\ call.op = "apply"
    /\ ret = RetRaise("application rate not set")
    /\ fert.is_active
    /\ fert.current_fertilizer # "None"
    /\ fert.application_rate = 0
    /\ fert.tank_level = 300 * MassScale

\* C28: load_product(product, amount) fails and changes nothing when the
\* controller is active or when amount > tank capacity; otherwise the
\* product loaded becomes product and the tank level becomes amount,
\* whatever it was.
C28_LoadReplaces ==
    [][call'.op = "load_fertilizer" =>
        IF fert.is_active \/ call'.amount > fert.tank_capacity
        THEN ret' = RetBool(FALSE) /\ fert' = fert
        ELSE /\ ret' = RetBool(TRUE)
             /\ fert' = [fert EXCEPT !.current_fertilizer = call'.fertilizer_type,
                                     !.tank_level = call'.amount]]_vars

\* a tank emptied by an application was loaded with 300 kg of another
\* product
C28_Witness ==
    /\ call = [op |-> "load_fertilizer", fertilizer_type |-> "UREA",
               amount |-> 300 * MassScale]
    /\ ret = RetBool(TRUE)
    /\ fert.current_fertilizer = "UREA"
    /\ fert.tank_level = 300 * MassScale
    /\ fert.total_applied = 500 * MassScale

\* C29: set_rate(rate) fails and leaves the rate unchanged when the
\* controller is inactive, when no product is loaded or when rate < 0 or
\* rate > max_rate; otherwise the rate becomes rate.  So 0 <= rate <= max_rate
\* in every reachable state.
C29_SetRateGuarded ==
    /\ [](fert.application_rate >= 0 /\ fert.application_rate <= fert.max_rate)
    /\ [][call'.op = "set_application_rate" =>
            IF \/ ~fert.is_active
               \/ fert.current_fertilizer = "None"
               \/ call'.rate < 0
               \/ call'.rate > fert.max_rate
            THEN ret' = RetBool(FALSE) /\ fert' = fert
            ELSE /\ ret' = RetBool(TRUE)
                 /\ fert' = [fert EXCEPT !.application_rate = call'.rate]]_vars

\* the rate was set to the highest rate allowed
C29_Witness ==
    /\ call = [op |-> "set_application_rate", rate |-> 200 * RateScale]
    /\ ret = RetBool(TRUE)
    /\ fert.application_rate = fert.max_rate

\* C30: recommend picks the product by fixed priority on the deficits
\* max(0, target - current): an N-deficit above 10 gives the high-N product
\* whatever the P and K deficits; else a P-deficit above 10 gives the high-P
\* product; else a K-deficit above 10 gives the high-K product; else a sum
\* of deficits above 15 gives the balanced product; else none.  Levels
\* {N:15, P:8, K:25} give deficits {N:15, P:7, K:15} and the high-N product.
C30_RecommendPriority ==
    [][call'.op = "recommend_fertilizer" =>
        LET soil == call'.current_npk
            dN == Max(0, 30 * SoilScale - NpkGet(soil, "N"))
            dP == Max(0, 15 * SoilScale - NpkGet(soil, "P"))
            dK == Max(0, 40 * SoilScale - NpkGet(soil, "K"))
            high == 10 * SoilScale
            product == ret'.recommended_fertilizer
        IN  /\ ret'.deficits = [N |-> dN, P |-> dP, K |-> dK]
            /\ (dN > high => product = "NPK_20_10_10")
            /\ (dN <= high /\ dP > high => product = "NPK_04_14_08")
            /\ (dN <= high /\ dP <= high /\ dK > high =>
                    product = "NPK_10_20_20")
            /\ (/\ dN <= high /\ dP <= high /\ dK <= high
                /\ dN + dP + dK > 15 * SoilScale
                => product = "NPK_15_15_15")
            /\ (/\ dN <= high /\ dP <= high /\ dK <= high
                /\ dN + dP + dK <= 15 * SoilScale
                => product = "Nenhum")
            /\ (soil = [N |-> 1500, P |-> 800, K |-> 2500] =>
                    /\ ret'.deficits = [N |-> 1500, P |-> 700, K |-> 1500]
                    /\ product = "NPK_20_10_10")]_vars

\* the recommendation for the levels {N:15, P:8, K:25}
C30_Witness ==
    /\ call = [op |-> "recommend_fertilizer",
               current_npk |-> [N |-> 1500, P |-> 800, K |-> 2500]]
    /\ ret.deficits = [N |-> 1500, P |-> 700, K |-> 1500]
    /\ ret.recommended_fertilizer = "NPK_20_10_10"

\* C31 as stated: recommend returns the rate min(max_rate, mean of the three
\* deficits * 3) when it recommends a product and the rate 0 when it
\* recommends none, and it changes no attribute of the system.
C31_RecommendRateExact ==
    [][call'.op = "recommend_fertilizer" =>
        LET deficits == ret'.deficits
            total == deficits.N + deficits.P + deficits.K
            rate == ret'.recommended_rate_kg_ha * (SoilScale \div RateScale)
        IN  /\ (ret'.recommended_fertilizer # "Nenhum" =>
                    rate = Min(fert.max_rate * (SoilScale \div RateScale),
                               total))
            /\ (ret'.recommended_fertilizer = "Nenhum" => rate = 0)
            /\ fert' = fert]_vars

\* C31: recommend returns min(max_rate, mean of the three deficits * 3)
\* rounded to one decimal place when it recommends a product (no more than
\* 0.05 away from it, and a whole number of tenths) and the rate 0 when it
\* recommends none, and it changes no attribute of the system.
C31_RecommendRateRounded ==
    [][call'.op = "recommend_fertilizer" =>
        LET deficits == ret'.deficits
            total == deficits.N + deficits.P + deficits.K
            rate == ret'.recommended_rate_kg_ha * (SoilScale \div RateScale)
            capped == Min(fert.max_rate * (SoilScale \div RateScale), total)
        IN  /\ (ret'.recommended_fertilizer # "Nenhum" =>
                    rate - capped \in -5..5)
            /\ (ret'.recommended_fertilizer = "Nenhum" => rate = 0)
            /\ fert' = fert]_vars

\* the started system set to 80 kg/ha was asked about the levels
\* {N:14.96, P:8, K:25}: deficits of 37.04 in all, the rate 37.0 recommended,
\* its own rate still 80 kg/ha
C31_Witness ==
    /\ call = [op |-> "recommend_fertilizer",
               current_npk |-> [N |-> 1496, P |-> 800, K |-> 2500]]
    /\ ret.deficits = [N |-> 1504, P |-> 700, K |-> 1500]
    /\ ret.recommended_rate_kg_ha = 370
    /\ fert.is_active
    /\ fert.application_rate = 80 * RateScale

\* what the zones from zone i on come to when, zone after zone, a zone with
\* a product recommended has the rate set to the rate recommended and its
\* area applied: the system afterwards and the results in the order of the
\* zones
RECURSIVE ZoneByZone(_, _, _)
ZoneByZone(s, zones, i) ==
    IF i > Len(zones)
    THEN [s |-> s, results |-> << >>]
    ELSE LET recommendation == recommend_fertilizer(s, zones[i].npk).ret IN
         IF recommendation.recommended_fertilizer = "Nenhum"
         THEN ZoneByZone(s, zones, i + 1)
         ELSE LET rated == [s EXCEPT !.application_rate =
                               recommendation.recommended_rate_kg_ha]
                  applied == apply(rated, zones[i].area)
                  rest == ZoneByZone(applied.s, zones, i + 1)
              IN  [s |-> rest.s,
                   results |-> <<[zone |-> i,
                                  result |-> applied.ret,
                                  recommendation |-> recommendation]>>
                               \o rest.results]

\* the zones of a list for which a product is recommended
ZonesInNeed(s, zones) ==
    {i \in 1..Len(zones) :
        recommend_fertilizer(s, zones[i].npk).ret.recommended_fertilizer
            # "Nenhum"}

\* results as the statement has them: one application per zone in need, in
\* the order of the zones, and the system those applications leave
ZoneResults(s, t, zones, returned) ==
    LET expected == ZoneByZone(s, zones, 1) IN
    /\ returned.kind = "results"
    /\ returned.results = expected.results
    /\ Len(returned.results) = Cardinality(ZonesInNeed(s, zones))
    /\ \A k \in 1..Len(returned.results) :
           /\ returned.results[k].zone \in ZonesInNeed(s, zones)
           /\ returned.results[k].result.kind = "applied"
           /\ k > 1 => returned.results[k - 1].zone < returned.results[k].zone
    /\ t = expected.s
    /\ t.applications_count = s.applications_count + Len(returned.results)
    /\ (ZonesInNeed(s, zones) = {} => t = s)

Composition ==
    [NPK_20_10_10 |-> [N |-> 20, P |-> 10, K |-> 10],
     NPK_10_20_20 |-> [N |-> 10, P |-> 20, K |-> 20],
     NPK_15_15_15 |-> [N |-> 15, P |-> 15, K |-> 15],
     NPK_04_14_08 |-> [N |-> 4, P |-> 14, K |-> 8],
     UREA |-> [N |-> 45, P |-> 0, K |-> 0]]

\* the mass an application took from the tank, and 100 times the mass of a
\* nutrient of its breakdown, both in thousandths of a kg
AmountTaken == fert.tank_level - fert'.tank_level
BreakdownTimes100(nutrient) == ret'.npk_applied[nutrient] * MassScale

\* C33 as stated: the breakdown a successful apply returns is, nutrient by
\* nutrient, the amount taken from the tank times the percentage of the
\* nutrient in the loaded product, over 100.
C33_BreakdownExact ==
    [][ApplyDone =>
        \A nutrient \in {"N", "P", "K"} :
            BreakdownTimes100(nutrient)
                = AmountTaken * Composition[fert.current_fertilizer][nutrient]]_vars

\* C33: the breakdown a successful apply returns is, nutrient by nutrient,
\* the amount taken from the tank times the percentage of the nutrient in
\* the loaded product, over 100, rounded to two decimal places of a kg: a
\* whole number of hundredths no more than 0.005 kg away from it.
C33_BreakdownRounded ==
    [][ApplyDone =>
        \A nutrient \in {"N", "P", "K"} :
            BreakdownTimes100(nutrient)
                - AmountTaken * Composition[fert.current_fertilizer][nutrient]
              \in -500..500]_vars

\* 5 ha asked at 80 kg/ha of a tank left with 99.2 kg of the 4-14-8 product
\* after two applications: 1.24 ha covered, 3.97 kg of N for 3.968
C33_Witness ==
    /\ call = [op |-> "apply", area |-> 500]
    /\ ret.kind = "applied"
    /\ ret.fertilizer_type = "NPK_04_14_08"
    /\ ret.area_hectares = 124
    /\ ret.amount_applied_kg = 9920
    /\ ret.npk_applied = [N |-> 397, P |-> 1389, K |-> 794]
    /\ fert.tank_level = 0

\* the identifier of a frame fits its addressing mode and its payload has
\* at most 8 bytes
FrameWellFormed(frame) ==
    /\ frame.can_id >= 0
    /\ frame.can_id <= (IF frame.is_extended THEN MaxExtendedId
                                             ELSE MaxStandardId)
    /\ Len(frame.data) <= MaxDataLen

\* C34: every frame held in tx_buffer or rx_buffer has an identifier that
\* fits its addressing mode (0..0x7FF standard, 0..0x1FFFFFFF extended,
\* never negative) and a payload of at most 8 bytes, whatever identifiers
\* and payloads were passed to send_message and simulate_incoming_message.
C34_QueuedFramesWellFormed ==
    /\ \A i \in 1..Len(tx_buffer) : FrameWellFormed(tx_buffer[i])
    /\ \A i \in 1..Len(rx_buffer) : FrameWellFormed(rx_buffer[i])

\* C35: irrigate_zone(n, d) on an active controller with n outside
\* 1..num_zones has no effect: the operating minutes, the volume dispensed,
\* the time of the last irrigation, the state of every zone, the flow and
\* the pressure are unchanged.
C35_IrrigateUnknownZone ==
    [][/\ call'.op = "irrigate_zone"
       /\ irr.is_active
       /\ call'.zone_number \notin 1..irr.num_zones
       => /\ irr'.operation_time = irr.operation_time
          /\ irr'.total_volume = irr.total_volume
          /\ irr'.last_irrigation = irr.last_irrigation
          /\ irr'.zones_status = irr.zones_status
          /\ irr'.current_flow_rate = irr.current_flow_rate
          /\ irr'.current_pressure = irr.current_pressure]_vars

\* C36: for both controllers, in every reachable state the controller is
\* active exactly when its mode is not off, whatever start(mode) and stop()
\* calls were made, start(off) among them.
C36_ActiveIffModeNotOff ==
    /\ irr.is_active <=> irr.mode # "off"
    /\ fert.is_active <=> fert.mode # "off"

\* C37: whenever the irrigation controller is inactive, every zone is
\* closed, the flow is 0 and the pressure is 0, whatever operations were
\* called: none opens a zone or sets a flow on an inactive controller.
C37_InactiveMeansShut ==
    ~irr.is_active =>
        /\ NoZoneOpen(irr)
        /\ irr.current_flow_rate = 0
        /\ irr.current_pressure = 0

\* open_zone(1) was refused by a controller stopped after it had irrigated
C37_Witness ==
    /\ call = [op |-> "open_zone", zone_number |-> 1]
    /\ ret = RetBool(FALSE)
    /\ ~irr.is_active
    /\ irr.last_irrigation = "stamped"
    /\ NoZoneOpen(irr)

\* a step takes a message out of rx_buffer only as a receive_message that
\* returns its head, and a change of the filters leaves rx_buffer as it is
ReceiveOnlyRemoves ==
    /\ (rx_buffer' # rx_buffer /\ Len(rx_buffer') <= Len(rx_buffer) =>
            /\ call'.op = "receive_message"
            /\ ret' = RetMsg(Head(rx_buffer))
            /\ rx_buffer' = Tail(rx_buffer))
    /\ (call'.op \in {"add_rx_filter", "clear_rx_filters"} =>
            rx_buffer' = rx_buffer)

\* C38: in every reachable state the number of messages
\* simulate_incoming_message accepted so far is messages_received plus the
\* length of rx_buffer; nothing but a receive_message that returns a
\* message takes one out of rx_buffer, and a change of the filters removes
\* none of those queued.
C38_ReceiveConservation ==
    /\ [](Len(injected) = messages_received + Len(rx_buffer))
    /\ [][ReceiveOnlyRemoves]_vars

\* with two messages accepted and one of them received, a filter was added
\* that the message still queued does not pass
C38_Witness ==
    /\ call.op = "add_rx_filter"
    /\ Len(injected) = 2
    /\ messages_received = 1
    /\ Len(rx_buffer) = 1
    /\ ~InFilters(rx_buffer[1].can_id, rx_filters)

\* the mass in the tank and the mass applied, together
MassInAndOut(s) == s.tank_level + s.total_applied

LoadDone == call'.op = "load_fertilizer" /\ ret' = RetBool(TRUE)

\* C39: tank_level + total_applied changes in no step but a successful
\* load_fertilizer; a successful apply, and a variable_rate_apply through
\* the applications it makes, moves what it takes from tank_level to
\* total_applied; no other operation changes either of the two.
C39_MassConserved ==
    [][/\ (~LoadDone => MassInAndOut(fert') = MassInAndOut(fert))
       /\ (ApplyDone =>
              /\ round(AmountTaken, 10) = ret'.amount_applied_kg
              /\ fert'.total_applied = fert.total_applied + AmountTaken)
       /\ (call'.op \notin {"load_fertilizer", "apply", "variable_rate_apply"}
              => /\ fert'.tank_level = fert.tank_level
                 /\ fert'.total_applied = fert.total_applied)
       /\ (LoadDone => fert'.total_applied = fert.total_applied)]_vars

\* two zones were treated by one variable_rate_apply from a tank loaded
\* with 300 kg: 100 kg and then 200 kg went from the tank to the total
C39_Witness ==
    /\ call.op = "variable_rate_apply"
    /\ ret.kind = "results"
    /\ Len(ret.results) = 2
    /\ ret.results[1].result.amount_applied_kg = 100 * 100
    /\ ret.results[2].result.amount_applied_kg = 200 * 100
    /\ fert.tank_level = 0
    /\ fert.total_applied = 300 * MassScale

\* a set_application_rate that succeeds with a rate above 0, or a
\* variable_rate_apply, which sets the rate through it
RateSet ==
    \/ /\ call'.op = "set_application_rate"
       /\ ret' = RetBool(TRUE)
       /\ call'.rate > 0
    \/ call'.op = "variable_rate_apply"

\* C40: a rate above 0 implies that the system is active and has a product
\* loaded, in every reachable state.  stop() leaves the rate at 0 and
\* start(mode) does not change it; the rate leaves 0 only by a
\* set_application_rate that succeeds with a rate above 0; and as long as
\* the rate is 0, a system that is active with a product loaded, as it is
\* after stop() and start(mode) when a rate had been set, fails every apply
\* for want of a rate.
C40_RateNotRestored ==
    /\ [](fert.application_rate > 0 =>
            fert.is_active /\ fert.current_fertilizer # "None")
    /\ [][/\ (call'.op = "FertilizerSystem.stop" => fert'.application_rate = 0)
          /\ (call'.op = "FertilizerSystem.start" =>
                 fert'.application_rate = fert.application_rate)
          /\ (fert.application_rate = 0 /\ fert'.application_rate # 0 =>
                 RateSet)
          /\ (/\ call'.op = "apply"
              /\ fert.is_active
              /\ fert.current_fertilizer # "None"
              /\ fert.application_rate = 0
              => ret' = RetRaise("application rate not set") /\ fert' = fert)]_vars

\* apply was refused for want of a rate by a system started again after it
\* had applied at a rate and been stopped
C40_Witness ==
    /\ call.op = "apply"
    /\ ret = RetRaise("application rate not set")
    /\ fert.is_active
    /\ fert.applications_count = 1
    /\ fert.application_rate = 0

====
